---- MODULE Spec2Model ----
(***************************************************************************)
(* Find by Media: cache store (similarity.js, Cache), embedding capability *)
(* (Embedder.init) and the two-phase indexer (main.js, Indexer and the     *)
(* App entry points that drive it), as one state machine.                  *)
(*                                                                         *)
(* JavaScript runs each handler to its next await without interleaving, so *)
(* an action is the code between two yield points.                         *)
(***************************************************************************)
EXTENDS Integers, Sequences, FiniteSets, TLC

\* ------------------------------------------------------------------ bounds
\* Item ids the cache operations are exercised with: 1..MaxIds.
MaxIds == 2
\* Durable writes that fail (writeFileSync throws) in one behaviour.
MaxFails == 1

\* Calls of Embedder.init in one behaviour: 1..MaxCallers.
MaxCallers == 4

\* Library items that are images with a file: 1..MaxItems.
MaxItems == 2
\* Activations of indexing entry points that may be in progress at once.
MaxRuns == 2
\* Indexer.CHUNK_SIZE, 10 in the source (main.js:416), scaled down so that a
\* library of MaxItems images and one more takes a chunk of several items
\* and a second chunk.
CHUNK_SIZE == 2

\* Candidates in the pool Similarity.findSimilar is given.
MaxPool == 3
\* Characters of the hashes Similarity.hammingDistance is given.
MaxHashLen == 2

\* Program constants.
CACHE_VERSION == 3
EMBED_CHUNK_SIZE == 1
MAX_HAMMING_BITS == 256
\* Hasher.PHASH_BITS: bmvbhash gives PHASH_BITS * PHASH_BITS bits, written
\* as hexadecimal digits of 4 bits.
PHASH_BITS == 16
\* Similarity.PHASH_WEIGHT 0.25, COLOR_WEIGHT 0.15, CLIP_WEIGHT 0.60, in
\* hundredths.
PHASH_WEIGHT == 25
COLOR_WEIGHT == 15
CLIP_WEIGHT == 60

\* One, as a score: scores are integers counting 1/SCALE.
SCALE == 1280000
\* One, as a component of an embedding: components count 1/EmbUnit.
EmbUnit == 5
\* A null excludeId.
NoId == 0

\* JavaScript null and undefined (an absent property).
Null == [null |-> TRUE]
Undefined == [undefined |-> TRUE]
\* Cache._saveTimer when no timeout is held (null).
NoTimer == 0

Ids == 1 .. MaxIds

\* A FingerprintRecord as stored in Cache._data.items: pHash, colorHistogram
\* and ext as written by the fingerprint phase, embedding by the embedding
\* phase.  A field that is 0 is absent (for colorHistogram: absent or an
\* empty array).
Rec(p, e) ==
    [pHash |-> p, colorHistogram |-> p, ext |-> p, embedding |-> e]

\* The records the cache operations are exercised with: {} (no field), a
\* fingerprint record, a fingerprint record with an embedding.
PutRecords == {Rec(0, 0), Rec(1, 0), Rec(1, 1)}

\* Cache._data.items is a JavaScript object: a function on the ids it holds.
EmptyItems == << >>

Lookup(items, id) == IF id \in DOMAIN items THEN items[id] ELSE Undefined

Assign(items, id, v) ==
    [i \in DOMAIN items \cup {id} |-> IF i = id THEN v ELSE items[i]]

Delete(items, ids) == [i \in DOMAIN items \ ids |-> items[i]]

LibraryPaths == {"libA", "libB"}

VARIABLES
    cache,      \* the Cache object, its file and its timeouts
    embedder,   \* the Embedder object: _loading, _ready, _error
    calls,      \* the calls of Embedder.init: where each is, what it returned
    indexer,    \* the Indexer object: _isRunning, _shouldStop, _phase
    app,        \* the App object: clipReady, indexingDone
    runs,       \* the activations of the indexing entry points
    allItems,   \* App.allItems: the library item list (ids, in order)
    search,     \* the activation of performSearch or _searchByExternalFile
    ui,         \* the panel: the loading indicator and the result grid
    sim,        \* a call of a Similarity function: its arguments, its result
    last        \* the operation that led to this state, with its inputs

embVars == <<embedder, calls>>

idxVars == <<indexer, app, runs, allItems, search, ui>>

vars ==
    <<cache, embedder, calls, indexer, app, runs, allItems, search, ui, sim, last>>

\* ------------------------------------------------------------------ Cache
\* cache.data       Cache._data: Null or [version, libraryPath, items]
\* cache.saveTimer  Cache._saveTimer: NoTimer or the handle of a timeout
\* cache.dirty      Cache._dirty
\* cache.file       the cache file: Null (none) or the JSON text written
\* cache.timers     the handles of the timeouts that are scheduled
\* cache.writes     writeFileSync calls that returned, in the current handler
\* cache.threw      an exception left a Cache method, in the current handler
\* cache.fails      writeFileSync calls that threw, so far

Truthy(v) == v # Undefined /\ v # Null

\* JSON.stringify: a property whose value is undefined is left out; numbers,
\* strings, arrays and null are written as they are.
JSONstringify(doc) ==
    [json |->
        [version |-> doc.version, libraryPath |-> doc.libraryPath,
         items |-> [i \in {j \in DOMAIN doc.items : doc.items[j] # Undefined}
                      |-> doc.items[i]]]]

\* JSON.parse of a text JSON.stringify wrote.
JSONparse(text) == text.json

\* setTimeout: a handle no scheduled timeout has.
NewHandle(c) == CHOOSE h \in 1 .. (Cardinality(c.timers) + 1) : h \notin c.timers

\* clearTimeout
clearTimeout(c, h) == [c EXCEPT !.timers = @ \ {h}]

\* fs.writeFileSync(Cache._cacheFile, json): ok is whether it succeeds.
writeFileSync(c, json, ok) ==
    IF ok THEN [c EXCEPT !.file = json, !.writes = @ + 1]
    ELSE [c EXCEPT !.fails = @ + 1]

_doSave_NoClear(c, ok) ==
    IF ~c.dirty \/ c.data = Null THEN c
    ELSE LET c2 == writeFileSync(c, JSONstringify(c.data), ok)
         IN  IF ok THEN [c2 EXCEPT !.dirty = FALSE] ELSE c2

_doSave_Rethrow(c, ok) ==
    LET c1 == IF c.saveTimer # NoTimer
              THEN [clearTimeout(c, c.saveTimer) EXCEPT !.saveTimer = NoTimer]
              ELSE c
    IN  IF ~c1.dirty \/ c1.data = Null THEN c1
        ELSE LET c2 == writeFileSync(c1, JSONstringify(c1.data), ok)
             IN  IF ok THEN [c2 EXCEPT !.dirty = FALSE]
                 ELSE [c2 EXCEPT !.threw = TRUE]

\* Cache._doSave
_doSave(c, ok) ==
    LET c1 == IF c.saveTimer # NoTimer
              THEN [clearTimeout(c, c.saveTimer) EXCEPT !.saveTimer = NoTimer]
              ELSE c
    IN  IF ~c1.dirty \/ c1.data = Null THEN c1
        ELSE LET c2 == writeFileSync(c1, JSONstringify(c1.data), ok)
             IN  IF ok THEN [c2 EXCEPT !.dirty = FALSE] ELSE c2

save_Unguarded(c, immediate, ok) ==
    LET c1 == [c EXCEPT !.dirty = TRUE]
    IN  IF immediate THEN _doSave(c1, ok)
        ELSE IF Cardinality(c1.timers) < 2
             THEN LET h == NewHandle(c1)
                  IN  [c1 EXCEPT !.saveTimer = h, !.timers = @ \cup {h}]
             ELSE c1

\* Cache.save without the timeout: the document is marked dirty and
\* written only when immediate.
save_NoTimer(c, immediate, ok) ==
    LET c1 == [c EXCEPT !.dirty = TRUE]
    IN  IF immediate THEN _doSave(c1, ok) ELSE c1

\* Cache.save
save(c, immediate, ok) ==
    LET c1 == [c EXCEPT !.dirty = TRUE]
    IN  IF immediate THEN _doSave(c1, ok)
        ELSE IF c1.saveTimer = NoTimer
             THEN LET h == NewHandle(c1)
                  IN  [c1 EXCEPT !.saveTimer = h, !.timers = @ \cup {h}]
             ELSE c1

\* Cache.getHash
getHash(c, itemId) ==
    IF c.data = Null THEN Null
    ELSE IF Truthy(Lookup(c.data.items, itemId))
         THEN Lookup(c.data.items, itemId)
         ELSE Null

\* Cache.hasValidHash
hasValidHash(c, itemId) ==
    IF c.data = Null THEN FALSE
    ELSE LET cached == Lookup(c.data.items, itemId)
         IN  IF ~Truthy(cached) THEN FALSE
             ELSE cached.pHash # 0 /\ cached.colorHistogram # 0

setHash_KeepEmbedding(c, itemId, hashData) ==
    IF c.data = Null THEN c
    ELSE LET old == Lookup(c.data.items, itemId)
             new == IF Truthy(old) /\ hashData.embedding = 0
                    THEN [hashData EXCEPT !.embedding = old.embedding]
                    ELSE hashData
         IN  save([c EXCEPT !.data.items = Assign(@, itemId, new)], FALSE, TRUE)

\* Cache.setHash
setHash(c, itemId, hashData) ==
    IF c.data = Null THEN c
    ELSE save([c EXCEPT !.data.items = Assign(@, itemId, hashData)], FALSE, TRUE)

\* Cache.getAllItems
getAllItems(c) == IF c.data = Null THEN EmptyItems ELSE c.data.items

\* Object.keys(Cache._data.items)
CachedIds(c) == DOMAIN getAllItems(c)

\* Cache.getCachedCount
getCachedCount(c) == Cardinality(CachedIds(c))

removeOrphans_AlwaysSave(c, validIds) ==
    IF c.data = Null THEN c
    ELSE LET removed == CachedIds(c) \ validIds
         IN  save([c EXCEPT !.data.items = Delete(@, removed)], FALSE, TRUE)

\* Cache.removeOrphans
removeOrphans(c, validIds) ==
    IF c.data = Null THEN c
    ELSE LET removed == CachedIds(c) \ validIds
             c1 == [c EXCEPT !.data.items = Delete(@, removed)]
         IN  IF removed # {} THEN save(c1, FALSE, TRUE) ELSE c1

\* clear with the debounced save in place of the immediate one.
clear_Debounced(c, ok) ==
    IF c.data # Null
    THEN save([c EXCEPT !.data.items = EmptyItems], FALSE, ok)
    ELSE c

\* Cache.clear
clear(c, ok) ==
    IF c.data # Null
    THEN save([c EXCEPT !.data.items = EmptyItems], TRUE, ok)
    ELSE c

\* Cache.flush
flush(c, ok) == _doSave(c, ok)

_load_IgnorePath(c, libraryPath) ==
    LET fresh == [version |-> CACHE_VERSION, libraryPath |-> libraryPath,
                  items |-> EmptyItems]
    IN  IF c.file # Null /\ JSONparse(c.file).version = CACHE_VERSION
        THEN [c EXCEPT !.data = JSONparse(c.file)]
        ELSE [c EXCEPT !.data = fresh]

_load_AlwaysFresh(c, libraryPath) ==
    [c EXCEPT !.data = [version |-> CACHE_VERSION, libraryPath |-> libraryPath,
                        items |-> EmptyItems]]

\* Cache._load: the file is read when it exists and kept when its version
\* and libraryPath match; anything else starts an empty document.
_load(c, libraryPath) ==
    LET fresh == [version |-> CACHE_VERSION, libraryPath |-> libraryPath,
                  items |-> EmptyItems]
    IN  IF c.file # Null
           /\ JSONparse(c.file).version = CACHE_VERSION
           /\ JSONparse(c.file).libraryPath = libraryPath
        THEN [c EXCEPT !.data = JSONparse(c.file)]
        ELSE [c EXCEPT !.data = fresh]

\* Cache.init
init(c, libraryPath) == _load(c, libraryPath)

\* A handler starts with no write made and nothing thrown.
Enter(c) == [c EXCEPT !.writes = 0, !.threw = FALSE]

\* writeFileSync may fail, MaxFails times in a behaviour.
WriteOutcomes(c) == IF c.fails < MaxFails THEN BOOLEAN ELSE {TRUE}

\* -------------------------------------------------------------- Similarity
\* Numbers.  A score is a fraction of 1 held as an integer number of
\* 1/SCALE; SCALE is a multiple of every denominator the formulas produce
\* on the values used here (256 bits, cosines over 25, halves, hundredths),
\* so the arithmetic below is exact.  An embedding component is held as a
\* number of 1/EmbUnit, so [3, 4] is the unit vector (0.6, 0.8).
\* Weights are held in hundredths.
Min(a, b) == IF a < b THEN a ELSE b
Max(a, b) == IF a > b THEN a ELSE b

\* A property that may be absent: has is whether it is there, v its value.
Missing == [has |-> FALSE, v |-> << >>]
Val(x) == [has |-> TRUE, v |-> x]

\* The fields of a query or of a cached record that the scores read.
SimRecord(p, h, e) == [pHash |-> p, colorHistogram |-> h, embedding |-> e]

\* Truthiness: a string is truthy when it is there and not empty, an array
\* whenever it is there.
TruthyString(x) == x.has /\ Len(x.v) > 0
TruthyArray(x) == x.has

\* Similarity.MODE_PHASH, MODE_CLIP, MODE_HYBRID; "" is an absent mode.
MODE_PHASH == "phash"
MODE_CLIP == "clip"
MODE_HYBRID == "hybrid"

\* A hash is a string of the characters 0-9a-f, here a sequence of them.
HexChars ==
    <<"0", "1", "2", "3", "4", "5", "6", "7", "8", "9", "a", "b", "c", "d", "e", "f">>

\* parseInt(ch, 16)
parseInt16(ch) == (CHOOSE n \in 1 .. 16 : HexChars[n] = ch) - 1

\* n1 ^ n2
RECURSIVE Xor(_, _)
Xor(n1, n2) ==
    IF n1 = 0 /\ n2 = 0 THEN 0
    ELSE (((n1 % 2) + (n2 % 2)) % 2) + 2 * Xor(n1 \div 2, n2 \div 2)

\* while (xor) { distance += xor & 1; xor >>= 1; }
RECURSIVE BitCount(_)
BitCount(xor) == IF xor = 0 THEN 0 ELSE (xor % 2) + BitCount(xor \div 2)

\* The sum a for loop accumulates over the elements of an array.
RECURSIVE Sum(_)
Sum(arr) == IF arr = << >> THEN 0 ELSE Head(arr) + Sum(Tail(arr))

hammingDistance_Digits(hash1, hash2) ==
    IF ~TruthyString(hash1) \/ ~TruthyString(hash2) \/ Len(hash1.v) # Len(hash2.v)
    THEN MAX_HAMMING_BITS
    ELSE LET differs(i) == IF hash1.v[i] # hash2.v[i] THEN 1 ELSE 0
         IN  Sum([i \in 1 .. Len(hash1.v) |-> differs(i)])

\* hammingDistance without the test of the lengths: the loop runs over the
\* characters both strings have.
hammingDistance_NoLengthTest(hash1, hash2) ==
    IF ~TruthyString(hash1) \/ ~TruthyString(hash2)
    THEN MAX_HAMMING_BITS
    ELSE LET bits(i) == BitCount(Xor(parseInt16(hash1.v[i]), parseInt16(hash2.v[i])))
         IN  Sum([i \in 1 .. Min(Len(hash1.v), Len(hash2.v)) |-> bits(i)])

\* Similarity.hammingDistance
hammingDistance(hash1, hash2) ==
    IF ~TruthyString(hash1) \/ ~TruthyString(hash2) \/ Len(hash1.v) # Len(hash2.v)
    THEN MAX_HAMMING_BITS
    ELSE LET bits(i) == BitCount(Xor(parseInt16(hash1.v[i]), parseInt16(hash2.v[i])))
         IN  Sum([i \in 1 .. Len(hash1.v) |-> bits(i)])

\* Similarity.pHashScore
pHashScore(hash1, hash2) ==
    SCALE - (hammingDistance(hash1, hash2) * SCALE) \div MAX_HAMMING_BITS

\* Math.sqrt, on the squares the vectors used here give.
Sqrt(n) == CHOOSE r \in 0 .. n : r * r = n

\* Similarity.histogramSimilarity
histogramSimilarity(hist1, hist2) ==
    IF ~TruthyArray(hist1) \/ ~TruthyArray(hist2) \/ Len(hist1.v) # Len(hist2.v)
    THEN 0
    ELSE LET prod(i) == hist1.v[i] * hist2.v[i]
             sq1(i) == hist1.v[i] * hist1.v[i]
             sq2(i) == hist2.v[i] * hist2.v[i]
             dot == Sum([i \in 1 .. Len(hist1.v) |-> prod(i)])
             mag1 == Sqrt(Sum([i \in 1 .. Len(hist1.v) |-> sq1(i)]))
             mag2 == Sqrt(Sum([i \in 1 .. Len(hist1.v) |-> sq2(i)]))
         IN  IF mag1 = 0 \/ mag2 = 0 THEN 0
             ELSE (dot * SCALE) \div (mag1 * mag2)

clipSimilarity_NoClamp(emb1, emb2) ==
    IF ~TruthyArray(emb1) \/ ~TruthyArray(emb2) \/ Len(emb1.v) # Len(emb2.v)
    THEN 0
    ELSE LET prod(i) == emb1.v[i] * emb2.v[i]
             dot == Sum([i \in 1 .. Len(emb1.v) |-> prod(i)])
             one == EmbUnit * EmbUnit
         IN  ((dot + one) * SCALE) \div (2 * one)

\* Similarity.clipSimilarity
clipSimilarity(emb1, emb2) ==
    IF ~TruthyArray(emb1) \/ ~TruthyArray(emb2) \/ Len(emb1.v) # Len(emb2.v)
    THEN 0
    ELSE LET prod(i) == emb1.v[i] * emb2.v[i]
             dot == Sum([i \in 1 .. Len(emb1.v) |-> prod(i)])
             one == EmbUnit * EmbUnit
         IN  ((Max(0 - one, Min(one, dot)) + one) * SCALE) \div (2 * one)

combinedScore_NoFallback(queryData, candidateData, mode) ==
    IF mode = MODE_CLIP
    THEN IF ~TruthyArray(queryData.embedding) \/ ~TruthyArray(candidateData.embedding)
         THEN 0
         ELSE clipSimilarity(queryData.embedding, candidateData.embedding)
    ELSE IF mode = MODE_PHASH
    THEN (60 * pHashScore(queryData.pHash, candidateData.pHash)
          + 40 * histogramSimilarity(queryData.colorHistogram,
                                     candidateData.colorHistogram)) \div 100
    ELSE (PHASH_WEIGHT * pHashScore(queryData.pHash, candidateData.pHash)
          + COLOR_WEIGHT * histogramSimilarity(queryData.colorHistogram,
                                               candidateData.colorHistogram)
          + CLIP_WEIGHT * clipSimilarity(queryData.embedding,
                                         candidateData.embedding)) \div 100

\* Similarity.combinedScore
combinedScore(queryData, candidateData, mode) ==
    IF mode = MODE_CLIP
    THEN IF ~TruthyArray(queryData.embedding) \/ ~TruthyArray(candidateData.embedding)
         THEN 0
         ELSE clipSimilarity(queryData.embedding, candidateData.embedding)
    ELSE IF mode = MODE_PHASH
    THEN LET pScore == pHashScore(queryData.pHash, candidateData.pHash)
             cScore == histogramSimilarity(queryData.colorHistogram,
                                           candidateData.colorHistogram)
         IN  (60 * pScore + 40 * cScore) \div 100
    ELSE LET pScore ==
                 IF TruthyString(queryData.pHash) /\ TruthyString(candidateData.pHash)
                 THEN pHashScore(queryData.pHash, candidateData.pHash) ELSE 0
             cScore ==
                 IF TruthyArray(queryData.colorHistogram)
                    /\ TruthyArray(candidateData.colorHistogram)
                 THEN histogramSimilarity(queryData.colorHistogram,
                                          candidateData.colorHistogram)
                 ELSE 0
             eScore ==
                 IF TruthyArray(queryData.embedding)
                    /\ TruthyArray(candidateData.embedding)
                 THEN clipSimilarity(queryData.embedding, candidateData.embedding)
                 ELSE 0
         IN  IF ~TruthyArray(queryData.embedding)
                \/ ~TruthyArray(candidateData.embedding)
             THEN (60 * pScore + 40 * cScore) \div 100
             ELSE (PHASH_WEIGHT * pScore + COLOR_WEIGHT * cScore
                   + CLIP_WEIGHT * eScore) \div 100

\* Array.prototype.sort with (a, b) => b.score - a.score: descending, and
\* stable, so entries of equal score keep their order.
RECURSIVE InsertSorted(_, _)
InsertSorted(e, sorted) ==
    IF sorted = << >> THEN <<e>>
    ELSE IF Head(sorted).score >= e.score
    THEN <<Head(sorted)>> \o InsertSorted(e, Tail(sorted))
    ELSE <<e>> \o sorted

RECURSIVE sort(_)
sort(results) ==
    IF results = << >> THEN << >>
    ELSE InsertSorted(results[Len(results)], sort(SubSeq(results, 1, Len(results) - 1)))

\* Array.prototype.slice(0, end)
slice(arr, end) ==
    IF end >= 0 THEN SubSeq(arr, 1, Min(end, Len(arr)))
    ELSE SubSeq(arr, 1, Max(Len(arr) + end, 0))

RECURSIVE Scan_NoModeSkip(_, _, _, _, _, _)
Scan_NoModeSkip(queryData, cacheItems, n, thresholdNorm, excludeId, searchMode) ==
    IF n = 0 THEN << >>
    ELSE LET before == Scan_NoModeSkip(queryData, cacheItems, n - 1, thresholdNorm,
                                       excludeId, searchMode)
             id == cacheItems[n].id
             candidate == cacheItems[n].value
         IN  IF id = excludeId THEN before
             ELSE IF candidate = Null THEN before
             ELSE LET score == combinedScore(queryData, candidate, searchMode)
                  IN  IF score >= thresholdNorm
                      THEN Append(before, [id |-> id, score |-> score])
                      ELSE before

\* The loop of findSimilar over ids[1..n]: the entries pushed to results.
\* cacheItems is the pool in the order Object.keys enumerates it, a
\* sequence of [id, value]; NoId is a null excludeId.
RECURSIVE Scan(_, _, _, _, _, _)
Scan(queryData, cacheItems, n, thresholdNorm, excludeId, searchMode) ==
    IF n = 0 THEN << >>
    ELSE LET before == Scan(queryData, cacheItems, n - 1, thresholdNorm,
                            excludeId, searchMode)
             id == cacheItems[n].id
             candidate == cacheItems[n].value
         IN  IF id = excludeId THEN before
             ELSE IF candidate = Null THEN before
             ELSE IF searchMode = MODE_CLIP /\ ~TruthyArray(candidate.embedding)
             THEN before
             ELSE IF searchMode = MODE_PHASH /\ ~TruthyString(candidate.pHash)
             THEN before
             ELSE LET score == combinedScore(queryData, candidate, searchMode)
                  IN  IF score >= thresholdNorm
                      THEN Append(before, [id |-> id, score |-> score])
                      ELSE before

findSimilar_NoExclude(queryData, cacheItems, threshold, maxResults, excludeId, mode) ==
    LET thresholdNorm == (threshold * SCALE) \div 100
        searchMode == IF mode # "" THEN mode ELSE MODE_PHASH
    IN  slice(sort(Scan(queryData, cacheItems, Len(cacheItems), thresholdNorm,
                        NoId, searchMode)),
              maxResults)

findSimilar_NoSort(queryData, cacheItems, threshold, maxResults, excludeId, mode) ==
    LET thresholdNorm == (threshold * SCALE) \div 100
        searchMode == IF mode # "" THEN mode ELSE MODE_PHASH
    IN  slice(Scan(queryData, cacheItems, Len(cacheItems), thresholdNorm,
                   excludeId, searchMode),
              maxResults)

findSimilar_NoSlice(queryData, cacheItems, threshold, maxResults, excludeId, mode) ==
    LET thresholdNorm == (threshold * SCALE) \div 100
        searchMode == IF mode # "" THEN mode ELSE MODE_PHASH
    IN  sort(Scan(queryData, cacheItems, Len(cacheItems), thresholdNorm,
                  excludeId, searchMode))

\* findSimilar that cuts the list before ordering it.
findSimilar_SliceFirst(queryData, cacheItems, threshold, maxResults, excludeId, mode) ==
    LET thresholdNorm == (threshold * SCALE) \div 100
        searchMode == IF mode # "" THEN mode ELSE MODE_PHASH
    IN  sort(slice(Scan(queryData, cacheItems, Len(cacheItems), thresholdNorm,
                        excludeId, searchMode),
                   maxResults))

\* Similarity.findSimilar
findSimilar(queryData, cacheItems, threshold, maxResults, excludeId, mode) ==
    LET thresholdNorm == (threshold * SCALE) \div 100
        searchMode == IF mode # "" THEN mode ELSE MODE_PHASH
    IN  slice(sort(Scan(queryData, cacheItems, Len(cacheItems), thresholdNorm,
                        excludeId, searchMode)),
              maxResults)

\* --------------------------------------------------------------- Embedder
\* A call of Embedder.init is "idle" (not made), "loading" (it set _loading
\* and awaits the model), "waiting" (in the 200 ms loop of a call that found
\* _loading set) or "returned" (res is what it returned).  target is the
\* call whose load was in flight when a waiting call was made, 0 for none.
Callers == 1 .. MaxCallers

IdleCall == [pc |-> "idle", res |-> FALSE, target |-> 0]

EmbedderInitial == [loading |-> FALSE, ready |-> FALSE, error |-> FALSE]

Loader(cs) == IF \E k \in Callers : cs[k].pc = "loading"
              THEN CHOOSE k \in Callers : cs[k].pc = "loading"
              ELSE 0

EmbedderInit_NoLoadingTest(e, cs, k) ==
    IF e.ready
    THEN [e |-> e,
          cs |-> [cs EXCEPT ![k] = [pc |-> "returned", res |-> TRUE, target |-> 0]]]
    ELSE [e |-> [e EXCEPT !.loading = TRUE, !.error = FALSE],
          cs |-> [cs EXCEPT ![k] = [pc |-> "loading", res |-> FALSE, target |-> 0]]]

\* Embedder.init up to its first await: returns true when ready, joins the
\* wait loop when a load is in flight, starts the load otherwise.
EmbedderInit(e, cs, k) ==
    IF e.ready
    THEN [e |-> e,
          cs |-> [cs EXCEPT ![k] = [pc |-> "returned", res |-> TRUE, target |-> 0]]]
    ELSE IF e.loading
    THEN [e |-> e,
          cs |-> [cs EXCEPT ![k] =
                     [pc |-> "waiting", res |-> FALSE, target |-> Loader(cs)]]]
    ELSE [e |-> [e EXCEPT !.loading = TRUE, !.error = FALSE],
          cs |-> [cs EXCEPT ![k] = [pc |-> "loading", res |-> FALSE, target |-> 0]]]

\* The 200 ms timeout of a waiting call fires: the loop tests _loading again
\* and the call returns _ready when it is clear.
EmbedderInitWake(e, cs, k) ==
    IF e.loading THEN [e |-> e, cs |-> cs]
    ELSE [e |-> e, cs |-> [cs EXCEPT ![k].pc = "returned", ![k].res = e.ready]]

\* The load of the loading call settles: ok is whether the script and the
\* model loaded (try) or something threw (catch).
EmbedderInitSettle(e, cs, k, ok) ==
    IF ok
    THEN [e |-> [e EXCEPT !.ready = TRUE, !.loading = FALSE],
          cs |-> [cs EXCEPT ![k].pc = "returned", ![k].res = TRUE]]
    ELSE [e |-> [e EXCEPT !.error = TRUE, !.loading = FALSE],
          cs |-> [cs EXCEPT ![k].pc = "returned", ![k].res = FALSE]]

\* Embedder.isReady
isReady(e) == e.ready

\* ---------------------------------------------------------------- Indexer
\* Library items.  Items 1..MaxItems are images with a file; NoPathId is an
\* image with neither thumbnailPath nor filePath; TextId is not an image;
\* OrphanId is in no library.
ItemIds == 1 .. MaxItems
NoPathId == MaxItems + 1
TextId == MaxItems + 2
OrphanId == MaxItems + 3

IMAGE_EXTENSIONS ==
    {"jpg", "jpeg", "png", "gif", "bmp", "webp", "svg", "tiff", "tif", "ico", "avif"}

ItemExt(id) == IF id = TextId THEN "txt" ELSE "png"

\* Indexer.isImageType
isImageType(ext) == ext \in IMAGE_EXTENSIONS

\* Indexer.getHashPath: Null when the item has no thumbnailPath and no filePath.
getHashPath(id) == IF id = NoPathId THEN Null ELSE [path |-> id]

ImageItems(items) == SelectSeq(items, LAMBDA id : isImageType(ItemExt(id)))

Range(seq) == {seq[n] : n \in 1 .. Len(seq)}

RunIds == 1 .. MaxRuns

IndexerInitial == [isRunning |-> FALSE, shouldStop |-> FALSE, phase |-> "null"]

\* The fields of App (lastSelectedId and lastSearchedId are NoId when
\* null); started: App.init has passed the item list; clipStarts: how many
\* times _startClipIndexing has passed its guard (a history count, held up
\* to 2).
AppInitial ==
    [clipReady |-> FALSE, indexingDone |-> FALSE, started |-> FALSE,
     clipStarts |-> 0,
     autoSearchEnabled |-> TRUE, resultCount |-> 20, threshold |-> 70,
     lastSelectedId |-> NoId, lastSearchedId |-> NoId, isSearching |-> FALSE,
     lastResults |-> Null]

\* An activation of indexLibrary, _startIndexing or _startClipIndexing:
\* pc is the await it is suspended at ("phashChunk": Promise.all of a chunk;
\* "phashDelay", "clipDelay": the timeout between chunks or items;
\* "clipItem": computeEmbedding; "phashReturned", "clipReturned": the
\* promise of _indexPhash or _indexClip, which has resolved, so that the
\* caller continues in a microtask), todo is toIndex or toEmbed, i the index of
\* the chunk or item in it, inflight the ids whose computation has not
\* settled, total is totalImages.  failed (history) holds the ids
\* whose computation has thrown in the phase the activation is in.
\* processed (history) is the first argument of the last call of the
\* progress callback in that phase.  stopReq records that stop() was
\* called during this activation.
IdleRun ==
    [kind |-> "none", pc |-> "idle", todo |-> << >>, i |-> 1, inflight |-> {},
     total |-> 0, processed |-> 0, stopReq |-> FALSE, failed |-> {}]

\* What a progress callback is called with; NoReport when none was called
\* (and, for the progress bar of the panel, when it is hidden).
NoReport == [processed |-> 0 - 1, total |-> 0 - 1, phase |-> "none"]
Report(processed, total, phase) ==
    [processed |-> processed, total |-> total, phase |-> phase]

\* The state a handler works on: the cache c, the indexer x, the app a, the
\* embedder e (read only), the activation r, the outcome ok of the durable
\* write it may make, ended: an indexLibrary or _startIndexing
\* activation returned in it, and p: the last report the handler made to
\* the progress callback.
World(r, ok) ==
    [c |-> Enter(cache), x |-> indexer, a |-> app, e |-> embedder, r |-> r,
     s |-> search, u |-> ui, ok |-> ok, ended |-> FALSE, p |-> NoReport]

\* onProgress(processed, total, phase): the callback of the client of
\* indexLibrary, or that of App (main.js 144-146, 177-179), which shows the
\* numbers in the progress bar.
onProgress(w, processed, total, phase) ==
    [w EXCEPT !.p = Report(processed, total, phase),
              !.r.processed = processed,
              !.u.progress = IF w.r.kind = "indexLibrary" THEN @
                             ELSE Report(processed, total, phase)]

\* UI.hideIndexingProgress
hideIndexingProgress(u) == [u EXCEPT !.progress = NoReport]

\* ----------------------------------------------------------- App: searching
\* The file the user drops on the panel, as a query.
ExternalId == OrphanId + 1

\* An activation of performSearch or _searchByExternalFile: pc is the await
\* it is suspended at ("hashes": Hasher.computeHashes; "embedding":
\* Embedder.computeEmbedding), id the query, mode the searchMode it read,
\* n the searches that have passed the isSearching test and not ended
\* (a history count, held up to 2).
SearchIdle == [pc |-> "idle", kind |-> "none", id |-> NoId, mode |-> "", n |-> 0]

\* The panel: the loading indicator, the ids of the result grid in order,
\* and the query the grid was rendered for (NoId: an empty state).
UIInitial ==
    [loading |-> FALSE, grid |-> << >>, for |-> NoId, progress |-> NoReport]

\* What Hasher.computeHashes and Embedder.computeEmbedding give for the
\* file of an item: two fingerprints and two unit vectors are enough to
\* tell the items apart.
Fingerprint(id) ==
    IF id % 2 = 1
    THEN [pHash |-> Val(<<"0", "f">>), colorHistogram |-> Val(<<3, 4>>)]
    ELSE [pHash |-> Val(<<"f", "f">>), colorHistogram |-> Val(<<4, 3>>)]

Embedding(id) == IF id % 2 = 1 THEN Val(<<5, 0>>) ELSE Val(<<3, 4>>)

\* The cached record of item id as a candidate of findSimilar.
AsCandidate(id, rec) ==
    SimRecord(IF rec.pHash # 0 THEN Fingerprint(id).pHash ELSE Missing,
              IF rec.colorHistogram # 0 THEN Fingerprint(id).colorHistogram
              ELSE Missing,
              IF rec.embedding # 0 THEN Embedding(id) ELSE Missing)

\* Cache.getAllItems() as findSimilar enumerates it (Object.keys), here in
\* the order of the ids.
CacheItems(c) ==
    LET ids == SelectSeq([i \in 1 .. OrphanId |-> i],
                         LAMBDA i : i \in CachedIds(c))
    IN  [n \in 1 .. Len(ids) |->
            [id |-> ids[n], value |-> AsCandidate(ids[n], getAllItems(c)[ids[n]])]]

\* App.getSearchMode
getSearchMode(a) == IF a.clipReady THEN MODE_HYBRID ELSE MODE_PHASH

\* UI.renderResults for the query id.
renderResults(u, results, id) ==
    [u EXCEPT !.grid = [n \in 1 .. Len(results) |-> results[n].id], !.for = id]

\* UI.showEmptyState
showEmptyState(u) == [u EXCEPT !.grid = << >>, !.for = NoId]

\* The end of performSearch and of _searchByExternalFile, with the record
\* of the query written to the cache as the fingerprint phase would.
SearchFinish_Persist(w, emb) ==
    [w EXCEPT !.c = setHash(w.c, w.s.id, Rec(1, IF emb THEN 1 ELSE 0)),
              !.a.isSearching = FALSE, !.s = SearchIdle]

\* The end of performSearch (lines 243-247, 255) and of
\* _searchByExternalFile (366-369, 374), once findSimilar has returned
\* results: emb is whether the query has an embedding.
SearchEnd(w, emb, results) ==
    LET id == w.s.id
        queryData ==
            SimRecord(Fingerprint(id).pHash, Fingerprint(id).colorHistogram,
                      IF emb THEN Embedding(id) ELSE Missing)
        excludeId == IF w.s.kind = "item" THEN id ELSE NoId
    IN  [w EXCEPT !.a.lastResults =
                      [queryData |-> queryData, excludeId |-> excludeId,
                       searchMode |-> w.s.mode, of |-> id],
                  !.a.lastSearchedId = IF w.s.kind = "item" THEN id ELSE @,
                  !.u = renderResults([w.u EXCEPT !.loading = FALSE], results, id),
                  !.a.isSearching = FALSE,
                  !.s = SearchIdle]

\* The end of performSearch (lines 238-247, 255) and of
\* _searchByExternalFile (361-369, 374), once queryData is built.
SearchFinish(w, emb) ==
    LET id == w.s.id
        queryData ==
            SimRecord(Fingerprint(id).pHash, Fingerprint(id).colorHistogram,
                      IF emb THEN Embedding(id) ELSE Missing)
        excludeId == IF w.s.kind = "item" THEN id ELSE NoId
    IN  SearchEnd(w, emb,
                  findSimilar(queryData, CacheItems(w.c), w.a.threshold,
                              w.a.resultCount, excludeId, w.s.mode))

\* The catch of performSearch and of _searchByExternalFile.
SearchFailed(w) ==
    [w EXCEPT !.u = showEmptyState([w.u EXCEPT !.loading = FALSE]),
              !.a.isSearching = FALSE,
              !.s = SearchIdle]

\* performSearch without the test of App.isSearching.
performSearch_NoGuard(w, id) ==
    IF getHashPath(id) = Null
    THEN [w EXCEPT !.u = showEmptyState([w.u EXCEPT !.loading = FALSE]),
                   !.a.isSearching = FALSE]
    ELSE [w EXCEPT !.a.isSearching = TRUE, !.u.loading = TRUE,
                   !.s = [pc |-> "hashes", kind |-> "item", id |-> id,
                          mode |-> getSearchMode(w.a),
                          n |-> Min(w.s.n + 1, 2)]]

\* App.performSearch up to its first await.
performSearch(w, id) ==
    IF w.a.isSearching THEN w
    ELSE IF getHashPath(id) = Null
    THEN [w EXCEPT !.u = showEmptyState([w.u EXCEPT !.loading = FALSE])]
    ELSE [w EXCEPT !.a.isSearching = TRUE, !.u.loading = TRUE,
                   !.s = [pc |-> "hashes", kind |-> "item", id |-> id,
                          mode |-> getSearchMode(w.a), n |-> w.s.n + 1]]

\* App._searchByExternalFile up to its first await.
_searchByExternalFile(w) ==
    IF w.a.isSearching THEN w
    ELSE [w EXCEPT !.a.isSearching = TRUE, !.u.loading = TRUE,
                   !.s = [pc |-> "hashes", kind |-> "external", id |-> ExternalId,
                          mode |-> getSearchMode(w.a), n |-> w.s.n + 1]]

\* App._refilterResults
_refilterResults(w) ==
    IF w.a.lastResults = Null THEN w
    ELSE LET lr == w.a.lastResults
             results ==
                 findSimilar(lr.queryData, CacheItems(w.c), w.a.threshold,
                             w.a.resultCount, lr.excludeId, lr.searchMode)
         IN  [w EXCEPT !.u = renderResults(w.u, results, lr.of)]

\* allItems.find(i => i.id === App.lastSelectedId), then performSearch.
SearchSelected(w, items) ==
    IF w.a.lastSelectedId \in Range(items)
    THEN performSearch(w, w.a.lastSelectedId)
    ELSE w

\* ------------------------------------------------------- Indexer: the phases

\* AfterClip without Indexer._isRunning = false.
AfterClip_KeepsRunning(w) ==
    [w EXCEPT !.x.phase = "null",
              !.u = IF w.r.kind = "indexLibrary" THEN @
                    ELSE hideIndexingProgress(@),
              !.ended = (w.ended \/ w.r.kind = "indexLibrary"),
              !.r = IdleRun]

\* The end of _startClipIndexing (after await _indexClip) and of
\* indexLibrary: not running, no phase.
AfterClip(w) ==
    [w EXCEPT !.x.isRunning = FALSE, !.x.phase = "null",
              !.u = IF w.r.kind = "indexLibrary" THEN @
                    ELSE hideIndexingProgress(@),
              !.ended = (w.ended \/ w.r.kind = "indexLibrary"),
              !.r = IdleRun]

\* _indexClip returns: its promise resolves and the caller, suspended at
\* await Indexer._indexClip(...), is resumed later.
ClipReturn(w) ==
    [w EXCEPT !.r.pc = "clipReturned", !.r.todo = << >>, !.r.i = 1,
              !.r.inflight = {}, !.r.total = 0, !.r.processed = 0,
              !.r.failed = {}]

\* The item at index i of toEmbed is done, computed or not (lines
\* 563-565): processed counts the items that were not skipped by continue,
\* the progress is reported and the delay between items starts.
ItemDone(w) ==
    LET processed ==
            Len(SelectSeq(SubSeq(w.r.todo, 1, w.r.i),
                          LAMBDA id : getHashPath(id) # Null))
        alreadyEmbedded == w.r.total - Len(w.r.todo)
    IN  onProgress([w EXCEPT !.r.pc = "clipDelay", !.r.inflight = {}],
                   alreadyEmbedded + processed, w.r.total, "clip")

\* The for loop of _indexClip from index i: the stop test, items without a
\* path skipped by continue, the first item with one awaited.
RECURSIVE ClipLoop(_, _)
ClipLoop(w, i) ==
    IF i > Len(w.r.todo) \/ w.x.shouldStop
    THEN ClipReturn([w EXCEPT !.c = flush(w.c, w.ok)])
    ELSE IF getHashPath(w.r.todo[i]) = Null
    THEN ClipLoop(w, i + EMBED_CHUNK_SIZE)
    ELSE [w EXCEPT !.r.pc = "clipItem", !.r.i = i, !.r.inflight = {w.r.todo[i]}]

\* Indexer._indexClip up to its first await.
_indexClip(w, items) ==
    IF ~isReady(w.e) THEN ClipReturn(w)
    ELSE LET toEmbed ==
                 SelectSeq(items,
                     LAMBDA id : /\ isImageType(ItemExt(id))
                                 /\ getHash(w.c, id) # Null
                                 /\ getHash(w.c, id).embedding = 0)
             totalImages == Len(ImageItems(items))
             alreadyEmbedded == totalImages - Len(toEmbed)
         IN  IF Len(toEmbed) = 0 THEN ClipReturn(w)
             ELSE ClipLoop(onProgress([w EXCEPT !.r.todo = toEmbed,
                                                !.r.total = totalImages],
                                      alreadyEmbedded, totalImages, "clip"),
                           1)

\* App._startClipIndexing
_startClipIndexing(w, items) ==
    IF ~w.a.clipReady \/ w.x.isRunning THEN [w EXCEPT !.r = IdleRun]
    ELSE _indexClip([w EXCEPT !.x.isRunning = TRUE, !.x.shouldStop = FALSE,
                              !.x.phase = "clip",
                              !.a.clipStarts = Min(@ + 1, 2),
                              !.r = [IdleRun EXCEPT !.kind = "startClip"]],
                    items)

\* The end of _startIndexing without its last statement,
\* if (App.clipReady) App._startClipIndexing().
AfterPhash_NoClipStart(w, items) ==
    IF w.r.kind = "indexLibrary"
    THEN IF ~w.x.shouldStop
         THEN _indexClip([w EXCEPT !.x.phase = "clip",
                                   !.r.todo = << >>, !.r.i = 1], items)
         ELSE AfterClip(w)
    ELSE [w EXCEPT !.x.isRunning = FALSE, !.x.phase = "null",
                   !.a.indexingDone = TRUE, !.u = hideIndexingProgress(@),
                   !.ended = TRUE, !.r = IdleRun]

\* What follows await Indexer._indexPhash: in indexLibrary the embedding
\* phase unless stop was requested; in _startIndexing the end of the run,
\* indexingDone, and _startClipIndexing when the model is ready.
AfterPhash(w, items) ==
    IF w.r.kind = "indexLibrary"
    THEN IF ~w.x.shouldStop
         THEN _indexClip([w EXCEPT !.x.phase = "clip",
                                   !.r.todo = << >>, !.r.i = 1], items)
         ELSE AfterClip(w)
    ELSE LET w1 == [w EXCEPT !.x.isRunning = FALSE, !.x.phase = "null",
                             !.a.indexingDone = TRUE,
                             !.u = hideIndexingProgress(@), !.ended = TRUE,
                             !.r = IdleRun]
             w2 == IF w1.a.autoSearchEnabled /\ w1.a.lastSelectedId # NoId
                   THEN SearchSelected(w1, items)
                   ELSE w1
         IN  IF w2.a.clipReady THEN _startClipIndexing(w2, items) ELSE w2

\* _indexPhash returns: its promise resolves and the caller, suspended at
\* await Indexer._indexPhash(...), is resumed later.
PhashReturn(w) ==
    [w EXCEPT !.r.pc = "phashReturned", !.r.todo = << >>, !.r.i = 1,
              !.r.inflight = {}, !.r.total = 0, !.r.processed = 0,
              !.r.failed = {}]

\* Promise.all of the chunk at index i has resolved (lines 506-508):
\* processed grows by the length of the chunk, the progress is reported and
\* the delay between chunks starts.
ChunkDone(w) ==
    LET processed == Min(w.r.i + CHUNK_SIZE - 1, Len(w.r.todo))
        alreadyCached == w.r.total - Len(w.r.todo)
    IN  onProgress([w EXCEPT !.r.pc = "phashDelay"],
                   alreadyCached + processed, w.r.total, "phash")

\* The for loop of _indexPhash from index i: the stop test, then the chunk
\* started (its items without a path return at once), or Cache.flush and
\* the return.
PhashLoop(w, i) ==
    IF i > Len(w.r.todo) \/ w.x.shouldStop
    THEN PhashReturn([w EXCEPT !.c = flush(w.c, w.ok)])
    ELSE LET chunk == {w.r.todo[n] :
                          n \in i .. (IF i + CHUNK_SIZE - 1 < Len(w.r.todo)
                                      THEN i + CHUNK_SIZE - 1 ELSE Len(w.r.todo))}
             started == {id \in chunk : getHashPath(id) # Null}
             w1 == [w EXCEPT !.r.i = i, !.r.inflight = started]
         IN  IF started = {} THEN ChunkDone(w1) ELSE [w1 EXCEPT !.r.pc = "phashChunk"]

\* _indexPhash with the first report made before the test of toIndex.
_indexPhash_ReportFirst(w, items) ==
    LET toIndex ==
            SelectSeq(items,
                LAMBDA id : isImageType(ItemExt(id)) /\ ~hasValidHash(w.c, id))
        totalImages == Len(ImageItems(items))
        alreadyCached == totalImages - Len(toIndex)
        w1 == onProgress(w, alreadyCached, totalImages, "phash")
    IN  IF Len(toIndex) = 0 THEN PhashReturn(w1)
        ELSE PhashLoop([w1 EXCEPT !.c = removeOrphans(w.c, Range(items)),
                                  !.r.todo = toIndex, !.r.total = totalImages],
                       1)

\* Indexer._indexPhash up to its first await.
_indexPhash(w, items) ==
    LET toIndex ==
            SelectSeq(items,
                LAMBDA id : isImageType(ItemExt(id)) /\ ~hasValidHash(w.c, id))
        totalImages == Len(ImageItems(items))
        alreadyCached == totalImages - Len(toIndex)
    IN  IF Len(toIndex) = 0 THEN PhashReturn(w)
        ELSE PhashLoop(
                 onProgress([w EXCEPT !.c = removeOrphans(w.c, Range(items)),
                                      !.r.todo = toIndex,
                                      !.r.total = totalImages],
                            alreadyCached, totalImages, "phash"),
                 1)

\* Indexer.indexLibrary
indexLibrary(w, items) ==
    IF w.x.isRunning THEN [w EXCEPT !.r = IdleRun]
    ELSE _indexPhash([w EXCEPT !.x.isRunning = TRUE, !.x.shouldStop = FALSE,
                               !.x.phase = "phash",
                               !.r = [IdleRun EXCEPT !.kind = "indexLibrary"]],
                     items)

\* App._startIndexing
_startIndexing(w, items) ==
    LET totalImages == Len(ImageItems(items))
        cachedCount == getCachedCount(w.c)
    IN  IF cachedCount >= totalImages
        THEN LET w1 == [w EXCEPT !.a.indexingDone = TRUE, !.ended = TRUE,
                                 !.r = IdleRun]
                 w2 == IF /\ w1.a.autoSearchEnabled
                          /\ w1.a.lastSelectedId # NoId
                          /\ w1.a.lastSearchedId = NoId
                       THEN SearchSelected(w1, items)
                       ELSE w1
             IN  IF w2.a.clipReady THEN _startClipIndexing(w2, items) ELSE w2
        ELSE _indexPhash([w EXCEPT !.u.progress =
                                       Report(cachedCount, totalImages, "phash"),
                                   !.x.isRunning = TRUE, !.x.shouldStop = FALSE,
                                   !.x.phase = "phash",
                                   !.r = [IdleRun EXCEPT !.kind = "startIndexing"]],
                         items)

\* Indexer.stop
stop(x) == [x EXCEPT !.shouldStop = TRUE]

\* ------------------------------------------------- the cache as a library
\* The cache file a session may find: none, or a document an earlier
\* session (of this or another schema version, for this or another
\* library) wrote.
Doc(v, lp, its) == [version |-> v, libraryPath |-> lp, items |-> its]

InitFiles ==
    {Null}
    \cup {JSONstringify(Doc(v, lp, its)) :
            v \in {CACHE_VERSION, CACHE_VERSION - 1},
            lp \in LibraryPaths,
            its \in {EmptyItems, Assign(EmptyItems, 1, Rec(1, 0))}}

NoOp ==
    [op |-> "none", ok |-> TRUE, id |-> 0, rec |-> Rec(0, 0), puts |-> 0,
     ended |-> FALSE, lp |-> "", valid |-> {}, rep |-> NoReport,
     computed |-> TRUE]

EmbedderIdle ==
    /\ embedder = EmbedderInitial
    /\ calls = [k \in Callers |-> IdleCall]

IndexerIdle ==
    /\ indexer = IndexerInitial
    /\ app = AppInitial
    /\ runs = [r \in RunIds |-> IdleRun]
    /\ allItems = << >>
    /\ search = SearchIdle
    /\ ui = UIInitial

\* No call of a Similarity function is being looked at.
SimIdle == sim = [kind |-> "none"]

\* setHash calls made since the pending timeout was set, counted to 2.
Puts(c) == IF c.saveTimer = NoTimer THEN 0 ELSE last.puts

InitCache ==
    /\ \E f \in InitFiles :
         cache = [data |-> Null, saveTimer |-> NoTimer, dirty |-> FALSE,
                  file |-> f, timers |-> {}, writes |-> 0, threw |-> FALSE,
                  fails |-> 0]
    /\ last = NoOp
    /\ EmbedderIdle
    /\ IndexerIdle
    /\ SimIdle

\* Cache.init: called by App.init, and again whenever the cache is
\* re-initialised for a library.
CacheInit(lp) ==
    /\ UNCHANGED <<embVars, idxVars, sim>>
    /\ cache' = init(Enter(cache), lp)
    /\ last' = [NoOp EXCEPT !.op = "init", !.lp = lp]

CacheSetHash(id, r) ==
    /\ UNCHANGED <<embVars, idxVars, sim>>
    /\ cache' = setHash(Enter(cache), id, r)
    /\ last' = [NoOp EXCEPT !.op = "setHash", !.id = id, !.rec = r,
                   !.puts = IF cache.data = Null THEN 0
                            ELSE IF Puts(cache) < 2 THEN Puts(cache) + 1 ELSE 2]

CacheRemoveOrphans(valid) ==
    /\ UNCHANGED <<embVars, idxVars, sim>>
    /\ cache' = removeOrphans(Enter(cache), valid)
    /\ last' = [NoOp EXCEPT !.op = "removeOrphans", !.puts = Puts(cache),
                   !.valid = valid]

CacheClear(ok) ==
    /\ UNCHANGED <<embVars, idxVars, sim>>
    /\ cache' = clear(Enter(cache), ok)
    /\ last' = [NoOp EXCEPT !.op = "clear", !.ok = ok]

CacheFlush(ok) ==
    /\ UNCHANGED <<embVars, idxVars, sim>>
    /\ cache' = flush(Enter(cache), ok)
    /\ last' = [NoOp EXCEPT !.op = "flush", !.ok = ok]

\* The debounce timeout set by Cache.save fires: its callback is _doSave.
SaveTimerFires(ok) ==
    /\ UNCHANGED <<embVars, idxVars, sim>>
    /\ \E t \in cache.timers :
         cache' = _doSave(clearTimeout(Enter(cache), t), ok)
    /\ last' = [NoOp EXCEPT !.op = "timer", !.ok = ok, !.puts = Puts(cache)]

NextCache ==
    \/ \E lp \in LibraryPaths : CacheInit(lp)
    \/ \E id \in Ids, r \in PutRecords : CacheSetHash(id, r)
    \/ \E valid \in SUBSET Ids : CacheRemoveOrphans(valid)
    \/ \E ok \in WriteOutcomes(cache) : CacheClear(ok)
    \/ \E ok \in WriteOutcomes(cache) : CacheFlush(ok)
    \/ \E ok \in WriteOutcomes(cache) : SaveTimerFires(ok)

SpecCache == InitCache /\ [][NextCache]_vars

\* The event loop runs the callback of every timeout that stays scheduled.
FairSpecCache ==
    SpecCache /\ WF_vars(\E ok \in WriteOutcomes(cache) : SaveTimerFires(ok))

\* ------------------------------------------- the embedder as a library
\* Calls are numbered in the order they are made.
EmbCall(k) ==
    /\ calls[k].pc = "idle"
    /\ \A j \in Callers : j < k => calls[j].pc # "idle"
    /\ LET n == EmbedderInit(embedder, calls, k)
       IN  embedder' = n.e /\ calls' = n.cs
    /\ last' = [NoOp EXCEPT !.op = "embInit", !.id = k]
    /\ UNCHANGED <<cache, idxVars, sim>>

EmbWake(k) ==
    /\ calls[k].pc = "waiting"
    /\ LET n == EmbedderInitWake(embedder, calls, k)
       IN  embedder' = n.e /\ calls' = n.cs
    /\ last' = [NoOp EXCEPT !.op = "embWake", !.id = k]
    /\ UNCHANGED <<cache, idxVars, sim>>

EmbSettle(k, ok) ==
    /\ calls[k].pc = "loading"
    /\ LET n == EmbedderInitSettle(embedder, calls, k, ok)
       IN  embedder' = n.e /\ calls' = n.cs
    /\ last' = [NoOp EXCEPT !.op = "embSettle", !.id = k, !.ok = ok]
    /\ UNCHANGED <<cache, idxVars, sim>>

InitEmbedder ==
    /\ cache = [data |-> Null, saveTimer |-> NoTimer, dirty |-> FALSE,
                file |-> Null, timers |-> {}, writes |-> 0, threw |-> FALSE,
                fails |-> 0]
    /\ last = NoOp
    /\ EmbedderIdle
    /\ IndexerIdle
    /\ SimIdle

NextEmbedder ==
    \/ \E k \in Callers : EmbCall(k)
    \/ \E k \in Callers : EmbWake(k)
    \/ \E k \in Callers, ok \in BOOLEAN : EmbSettle(k, ok)

SpecEmbedder == InitEmbedder /\ [][NextEmbedder]_vars

\* ------------------------------------------- Similarity as a library
\* A call of hammingDistance, combinedScore or findSimilar on arguments
\* drawn from the sets below; the action applies the function.
HashAlphabet == {"0", "1", "6", "9", "f"}

HashStrings == UNION {[1 .. k -> HashAlphabet] : k \in 0 .. MaxHashLen}

HashArgs == {Missing} \cup {Val(h) : h \in HashStrings}

\* Values of the fields of a query or a candidate: absent, empty, or
\* present; a histogram of magnitude 5; an embedding that is a unit vector,
\* its opposite, or a vector that was not normalised.
PHashValues == {Missing, Val(<< >>), Val(<<"0", "f">>), Val(<<"f", "f">>)}
HistogramValues == {Missing, Val(<< >>), Val(<<3, 4>>), Val(<<4, 3>>)}
EmbeddingValues ==
    {Missing, Val(<< >>), Val(<<5, 0>>), Val(<<0 - 5, 0>>), Val(<<10, 0>>)}

ScoreRecords ==
    [pHash : PHashValues, colorHistogram : HistogramValues,
     embedding : EmbeddingValues]

\* The candidates of a pool: a complete record, one without an embedding,
\* one that has only an embedding, one whose three scores against the
\* complete record are all below 1, and a null entry.
PoolValues ==
    {SimRecord(Val(<<"0", "f">>), Val(<<3, 4>>), Val(<<5, 0>>)),
     SimRecord(Val(<<"f", "f">>), Val(<<4, 3>>), Missing),
     SimRecord(Missing, Missing, Val(<<0 - 5, 0>>)),
     SimRecord(Val(<<"0", "0">>), Val(<<3, 4>>), Val(<<3, 4>>)),
     Null}

QueryRecords ==
    {SimRecord(Val(<<"0", "f">>), Val(<<3, 4>>), Val(<<5, 0>>)),
     SimRecord(Val(<<"0", "f">>), Val(<<3, 4>>), Missing)}

\* Pools of up to MaxPool candidates; the id of a candidate is its place in
\* the enumeration.
Pools ==
    UNION {{[i \in 1 .. k |-> [id |-> i, value |-> vs[i]]] :
              vs \in [1 .. k -> PoolValues]} : k \in 0 .. MaxPool}

Thresholds == {0, 98, 100}
MaxResultsValues == {0, 1, MaxPool}
ExcludeIds == {NoId, 1, 2}
Modes == {"", MODE_PHASH, MODE_CLIP, MODE_HYBRID}

InitSimilarity ==
    /\ \/ \E a \in HashArgs, b \in HashArgs :
            sim = [kind |-> "hammingDistance", done |-> FALSE, a |-> a, b |-> b]
       \/ \E q \in ScoreRecords, c \in ScoreRecords, mode \in Modes \ {""} :
            sim = [kind |-> "combinedScore", done |-> FALSE,
                   queryData |-> q, candidateData |-> c, mode |-> mode]
       \/ \E q \in QueryRecords, pool \in Pools, t \in Thresholds,
             m \in MaxResultsValues, x \in ExcludeIds, mode \in Modes :
            sim = [kind |-> "findSimilar", done |-> FALSE,
                   queryData |-> q, cacheItems |-> pool, threshold |-> t,
                   maxResults |-> m, excludeId |-> x, mode |-> mode]
    /\ cache = [data |-> Null, saveTimer |-> NoTimer, dirty |-> FALSE,
                file |-> Null, timers |-> {}, writes |-> 0, threw |-> FALSE,
                fails |-> 0]
    /\ last = NoOp
    /\ EmbedderIdle
    /\ IndexerIdle

\* hammingDistance(a, b), with hammingDistance(a, a) and (b, a), and
\* pHashScore(a, b).
SimHammingDistance ==
    /\ sim.kind = "hammingDistance" /\ ~sim.done
    /\ sim' = [kind |-> "hammingDistance", done |-> TRUE, a |-> sim.a, b |-> sim.b,
               ab |-> hammingDistance(sim.a, sim.b),
               aa |-> hammingDistance(sim.a, sim.a),
               ba |-> hammingDistance(sim.b, sim.a),
               score |-> pHashScore(sim.a, sim.b)]
    /\ UNCHANGED <<cache, embVars, idxVars, last>>

\* combinedScore(queryData, candidateData, mode), with the score the
\* pixel mode gives for the same pair.
SimCombinedScore ==
    /\ sim.kind = "combinedScore" /\ ~sim.done
    /\ sim' = [kind |-> "combinedScore", done |-> TRUE,
               queryData |-> sim.queryData, candidateData |-> sim.candidateData,
               mode |-> sim.mode,
               score |-> combinedScore(sim.queryData, sim.candidateData, sim.mode),
               pixel |-> combinedScore(sim.queryData, sim.candidateData, MODE_PHASH)]
    /\ UNCHANGED <<cache, embVars, idxVars, last>>

SimFindSimilar ==
    /\ sim.kind = "findSimilar" /\ ~sim.done
    /\ sim' = [kind |-> "findSimilar", done |-> TRUE,
               queryData |-> sim.queryData, cacheItems |-> sim.cacheItems,
               threshold |-> sim.threshold, maxResults |-> sim.maxResults,
               excludeId |-> sim.excludeId, mode |-> sim.mode,
               results |-> findSimilar(sim.queryData, sim.cacheItems, sim.threshold,
                                       sim.maxResults, sim.excludeId, sim.mode)]
    /\ UNCHANGED <<cache, embVars, idxVars, last>>

NextSimilarity ==
    \/ SimHammingDistance
    \/ SimCombinedScore
    \/ SimFindSimilar

SpecSimilarity == InitSimilarity /\ [][NextSimilarity]_vars

\* ------------------------------------------------------------ the plugin
\* The session from the point where App.init has initialised the cache and
\* is waiting for the item list (main.js:68).  Indexer.indexLibrary and
\* Indexer.stop are methods of a global object, callable from then on.
Libraries ==
    {<< >>, <<TextId>>, [n \in ItemIds |-> n] \o <<NoPathId>>,
     <<1, NoPathId, TextId>>}

\* What Cache.init found for this library: nothing, fingerprints of an
\* earlier session with or without embeddings, records of deleted items.
InitItems ==
    {EmptyItems,
     Assign(EmptyItems, 1, Rec(1, 0)),
     Assign(EmptyItems, 1, Rec(1, 1)),
     Assign(Assign(EmptyItems, 1, Rec(1, 0)), OrphanId, Rec(1, 0)),
     Assign(Assign(EmptyItems, 1, Rec(1, 0)), NoPathId, Rec(1, 0))}

\* The App is the first caller of Embedder.init.
AppCaller == 1

Init ==
    /\ \E its \in InitItems :
         cache = [data |-> Doc(CACHE_VERSION, "libA", its),
                  saveTimer |-> NoTimer, dirty |-> FALSE,
                  file |-> JSONstringify(Doc(CACHE_VERSION, "libA", its)),
                  timers |-> {}, writes |-> 0, threw |-> FALSE, fails |-> 0]
    /\ allItems \in Libraries
    /\ indexer = IndexerInitial
    /\ app = AppInitial
    /\ runs = [r \in RunIds |-> IdleRun]
    /\ search = SearchIdle
    /\ ui = UIInitial
    /\ EmbedderIdle
    /\ SimIdle
    /\ last = NoOp

IdleRuns == {r \in RunIds : runs[r].pc = "idle"}

\* No continuation of a resolved promise is waiting.  Such continuations
\* are microtasks: they run before the event loop takes the next timeout,
\* load event or reply, so only calls made by running code come between.
NoMicrotask == \A r \in RunIds : runs[r].pc \notin {"phashReturned", "clipReturned"}

\* The activation record a call made now gets.
FreeRun == CHOOSE r \in IdleRuns : \A q \in IdleRuns : r <= q

\* The handler of activation r has run to its next await: w is what it left.
Commit(w, r) ==
    /\ cache' = w.c
    /\ indexer' = w.x
    /\ app' = w.a
    /\ search' = w.s
    /\ ui' = w.u
    /\ runs' = [runs EXCEPT ![r] = w.r]

\* A client calls Indexer.indexLibrary with the library item list.
IndexLibrary(ok) ==
    /\ IdleRuns # {}
    /\ Commit(indexLibrary(World(IdleRun, ok), allItems), FreeRun)
    /\ last' = [NoOp EXCEPT !.op = "indexLibrary",
                   !.ended = indexLibrary(World(IdleRun, ok), allItems).ended,
                   !.rep = indexLibrary(World(IdleRun, ok), allItems).p]
    /\ UNCHANGED <<embVars, allItems, sim>>

\* App.init from the item list on: _startIndexing when the library has
\* items, then _initClip up to await Embedder.init.
AppInit(ok) ==
    /\ NoMicrotask
    /\ ~app.started
    /\ IdleRuns # {}
    /\ LET w0 == World(IdleRun, ok)
           w1 == IF Len(allItems) > 0 THEN _startIndexing(w0, allItems) ELSE w0
           n == EmbedderInit(embedder, calls, AppCaller)
       IN  /\ Commit([w1 EXCEPT !.a.started = TRUE], FreeRun)
           /\ embedder' = n.e
           /\ calls' = n.cs
           /\ last' = [NoOp EXCEPT !.op = "appInit", !.ended = w1.ended,
                          !.rep = w1.p]
    /\ UNCHANGED <<allItems, sim>>

\* The model load of _initClip settles; _initClip continues.
InitClipSettle(loaded, ok) ==
    /\ NoMicrotask
    /\ calls[AppCaller].pc = "loading"
    /\ IdleRuns # {}
    /\ LET n == EmbedderInitSettle(embedder, calls, AppCaller, loaded)
           w0 == [World(IdleRun, ok) EXCEPT !.e = n.e]
           w1 == IF loaded
                 THEN LET w2 == [w0 EXCEPT !.a.clipReady = TRUE]
                          w3 == IF w2.a.indexingDone /\ Len(allItems) > 0
                                THEN _startClipIndexing(w2, allItems)
                                ELSE w2
                      IN  IF /\ w3.a.lastSelectedId \in Range(allItems)
                             /\ w3.a.lastResults # Null
                          THEN performSearch(
                                   [w3 EXCEPT !.a.lastSearchedId = NoId],
                                   w3.a.lastSelectedId)
                          ELSE w3
                 ELSE w0
       IN  /\ Commit(w1, FreeRun)
           /\ embedder' = n.e
           /\ calls' = n.cs
           /\ last' = [NoOp EXCEPT !.op = "initClipSettle", !.rep = w1.p]
    /\ UNCHANGED <<allItems, sim>>

\* A client calls Indexer.stop.
Stop ==
    /\ indexer' = stop(indexer)
    /\ runs' = [r \in RunIds |->
                  IF runs[r].pc # "idle" THEN [runs[r] EXCEPT !.stopReq = TRUE]
                  ELSE runs[r]]
    /\ cache' = Enter(cache)
    /\ last' = [NoOp EXCEPT !.op = "stop"]
    /\ UNCHANGED <<embVars, app, allItems, search, ui, sim>>

\* HashSettles without the try/catch around the item: a failure rejects
\* Promise.all and _indexPhash ends.
HashSettles_Uncaught(r, id, computed) ==
    /\ NoMicrotask
    /\ runs[r].pc = "phashChunk"
    /\ id \in runs[r].inflight
    /\ LET w0 == World(runs[r], TRUE)
           w1 == [w0 EXCEPT !.c = IF computed THEN setHash(@, id, Rec(1, 0))
                                  ELSE @,
                            !.r.inflight = @ \ {id},
                            !.r.failed = IF computed THEN @ ELSE @ \cup {id}]
           w == IF ~computed THEN PhashReturn(w1)
                ELSE IF w1.r.inflight = {} THEN ChunkDone(w1) ELSE w1
       IN  /\ Commit(w, r)
           /\ last' = [NoOp EXCEPT !.op = "hashSettles", !.rep = w.p,
                          !.id = id, !.computed = computed]
    /\ UNCHANGED <<embVars, allItems, sim>>

\* Hasher.computeHashes settles for one item of the chunk of activation r:
\* the record is written unless it threw; when it was the last of the
\* chunk, Promise.all resolves and the delay between chunks starts.
HashSettles(r, id, computed) ==
    /\ NoMicrotask
    /\ runs[r].pc = "phashChunk"
    /\ id \in runs[r].inflight
    /\ LET w0 == World(runs[r], TRUE)
           w1 == [w0 EXCEPT !.c = IF computed THEN setHash(@, id, Rec(1, 0))
                                  ELSE @,
                            !.r.inflight = @ \ {id},
                            !.r.failed = IF computed THEN @ ELSE @ \cup {id}]
           w == IF w1.r.inflight = {} THEN ChunkDone(w1) ELSE w1
       IN  /\ Commit(w, r)
           /\ last' = [NoOp EXCEPT !.op = "hashSettles", !.rep = w.p,
                          !.id = id, !.computed = computed]
    /\ UNCHANGED <<embVars, allItems, sim>>

\* The delay after a chunk ends: the next iteration of the loop of
\* _indexPhash, or its end and what follows it in the caller.
PhashDelayDone(r, ok) ==
    /\ NoMicrotask
    /\ runs[r].pc = "phashDelay"
    /\ LET w == PhashLoop(World(runs[r], ok), runs[r].i + CHUNK_SIZE)
       IN  /\ Commit(w, r)
           /\ last' = [NoOp EXCEPT !.op = "phashDelayDone", !.ok = ok,
                          !.rep = w.p]
    /\ UNCHANGED <<embVars, allItems, sim>>

\* The caller of _indexPhash continues after its await: indexLibrary with
\* the embedding phase, _startIndexing with its end.
PhashReturns(r, ok) ==
    /\ runs[r].pc = "phashReturned"
    /\ LET w == AfterPhash(World(runs[r], ok), allItems)
       IN  /\ Commit(w, r)
           /\ last' = [NoOp EXCEPT !.op = "phashReturns",
                          !.ok = ok, !.ended = w.ended, !.rep = w.p]
    /\ UNCHANGED <<embVars, allItems, sim>>

\* Embedder.computeEmbedding settles for the item of activation r: the
\* embedding is merged into the record the cache has now; the delay starts.
EmbedSettles(r, computed) ==
    /\ NoMicrotask
    /\ runs[r].pc = "clipItem"
    /\ LET id == runs[r].todo[runs[r].i]
           w0 == World(runs[r], TRUE)
           existing ==
               IF getHash(w0.c, id) # Null THEN getHash(w0.c, id) ELSE Rec(0, 0)
           w == ItemDone([w0 EXCEPT !.c =
                              IF computed
                              THEN setHash(@, id, [existing EXCEPT !.embedding = 1])
                              ELSE @,
                              !.r.failed = IF computed THEN @ ELSE @ \cup {id}])
       IN  /\ Commit(w, r)
           /\ last' = [NoOp EXCEPT !.op = "embedSettles", !.rep = w.p,
                          !.id = id, !.computed = computed]
    /\ UNCHANGED <<embVars, allItems, sim>>

\* The delay after an item ends: the next iteration of the loop of
\* _indexClip, or its end and what follows it in the caller.
ClipDelayDone(r, ok) ==
    /\ NoMicrotask
    /\ runs[r].pc = "clipDelay"
    /\ LET w == ClipLoop(World(runs[r], ok), runs[r].i + EMBED_CHUNK_SIZE)
       IN  /\ Commit(w, r)
           /\ last' = [NoOp EXCEPT !.op = "clipDelayDone", !.ok = ok,
                          !.rep = w.p]
    /\ UNCHANGED <<embVars, allItems, sim>>

\* The caller of _indexClip continues after its await: the end of
\* indexLibrary or of _startClipIndexing.
ClipReturns(r) ==
    /\ runs[r].pc = "clipReturned"
    /\ LET w == AfterClip(World(runs[r], TRUE))
       IN  /\ Commit(w, r)
           /\ last' = [NoOp EXCEPT !.op = "clipReturns", !.ended = w.ended]
    /\ UNCHANGED <<embVars, allItems, sim>>

Next ==
    \/ \E ok \in WriteOutcomes(cache) : IndexLibrary(ok)
    \/ \E ok \in WriteOutcomes(cache) : AppInit(ok)
    \/ \E loaded \in BOOLEAN, ok \in WriteOutcomes(cache) : InitClipSettle(loaded, ok)
    \/ Stop
    \/ \E r \in RunIds, id \in 1 .. NoPathId, computed \in BOOLEAN :
         HashSettles(r, id, computed)
    \/ \E r \in RunIds, ok \in WriteOutcomes(cache) : PhashDelayDone(r, ok)
    \/ \E r \in RunIds, computed \in BOOLEAN : EmbedSettles(r, computed)
    \/ \E r \in RunIds, ok \in WriteOutcomes(cache) : ClipDelayDone(r, ok)
    \/ \E r \in RunIds, ok \in WriteOutcomes(cache) : PhashReturns(r, ok)
    \/ \E r \in RunIds : ClipReturns(r)
    \/ \E ok \in WriteOutcomes(cache) : NoMicrotask /\ SaveTimerFires(ok)

Spec == Init /\ [][Next]_vars

\* The event loop runs every continuation that is ready: a computation
\* that was started settles (the image loader has a timeout), a timeout
\* that was set fires, a resolved promise resumes its awaiter.
FairSpec ==
    /\ Spec
    /\ WF_vars(\E r \in RunIds, id \in 1 .. NoPathId, computed \in BOOLEAN :
                  HashSettles(r, id, computed))
    /\ WF_vars(\E r \in RunIds, ok \in WriteOutcomes(cache) : PhashDelayDone(r, ok))
    /\ WF_vars(\E r \in RunIds, computed \in BOOLEAN : EmbedSettles(r, computed))
    /\ WF_vars(\E r \in RunIds, ok \in WriteOutcomes(cache) : ClipDelayDone(r, ok))
    /\ WF_vars(\E r \in RunIds, ok \in WriteOutcomes(cache) : PhashReturns(r, ok))
    /\ WF_vars(\E r \in RunIds : ClipReturns(r))

\* ---------------------------------------------------- the user at the panel
\* A handler that belongs to no indexing activation has run to its next
\* await: w is what it left.
CommitApp(w) ==
    /\ cache' = w.c
    /\ indexer' = w.x
    /\ app' = w.a
    /\ search' = w.s
    /\ ui' = w.u
    /\ UNCHANGED runs

\* What eagle.item.getSelected() can give: one item of the library, or
\* (NoId) no item or several.
Selections == Range(allItems) \cup {NoId}

\* App._pollSelection after await eagle.item.getSelected(), when it finds
\* a single item that is not lastSelectedId (any other poll changes nothing).
PollSelection(sel) ==
    /\ NoMicrotask
    /\ app.started
    /\ sel # NoId /\ sel # app.lastSelectedId
    /\ LET w0 == [World(IdleRun, TRUE) EXCEPT !.a.lastSelectedId = sel]
       IN  CommitApp(IF w0.a.autoSearchEnabled THEN performSearch(w0, sel) ELSE w0)
    /\ last' = [NoOp EXCEPT !.op = "pollSelection"]
    /\ UNCHANGED <<embVars, allItems, sim>>

\* The change handler of the result count slider (lines 296-299):
\* _saveSettings, then _refilterResults.
ResultCountChange ==
    /\ NoMicrotask
    /\ app.started
    /\ app.lastResults # Null
    /\ CommitApp(_refilterResults(World(IdleRun, TRUE)))
    /\ last' = [NoOp EXCEPT !.op = "resultCountChange"]
    /\ UNCHANGED <<embVars, allItems, sim>>

\* The drop handler, for an image file (lines 339-347).
DropFile ==
    /\ NoMicrotask
    /\ app.started
    /\ CommitApp(_searchByExternalFile(World(IdleRun, TRUE)))
    /\ last' = [NoOp EXCEPT !.op = "dropFile"]
    /\ UNCHANGED <<embVars, allItems, sim>>

\* Hasher.computeHashes of the query settles: on a failure the catch; else
\* the embedding is awaited when App.clipReady, or the search ends.
SearchHashSettles(computed) ==
    /\ NoMicrotask
    /\ search.pc = "hashes"
    /\ LET w == World(IdleRun, TRUE)
       IN  CommitApp(IF ~computed THEN SearchFailed(w)
                     ELSE IF w.a.clipReady THEN [w EXCEPT !.s.pc = "embedding"]
                     ELSE SearchFinish(w, FALSE))
    /\ last' = [NoOp EXCEPT !.op = "searchHashSettles"]
    /\ UNCHANGED <<embVars, allItems, sim>>

\* Embedder.computeEmbedding of the query settles: a failure is caught and
\* the query has no embedding; the search ends.
SearchEmbedSettles(computed) ==
    /\ NoMicrotask
    /\ search.pc = "embedding"
    /\ CommitApp(SearchFinish(World(IdleRun, TRUE), computed))
    /\ last' = [NoOp EXCEPT !.op = "searchEmbedSettles"]
    /\ UNCHANGED <<embVars, allItems, sim>>

\* The plugin as it runs in the host: App.init is the only caller of the
\* indexing entry points (Indexer.indexLibrary has no caller in the
\* program); Indexer.stop may be called.
NextApp ==
    \/ \E ok \in WriteOutcomes(cache) : AppInit(ok)
    \/ \E loaded \in BOOLEAN, ok \in WriteOutcomes(cache) : InitClipSettle(loaded, ok)
    \/ Stop
    \/ \E r \in RunIds, id \in 1 .. NoPathId, computed \in BOOLEAN :
         HashSettles(r, id, computed)
    \/ \E r \in RunIds, ok \in WriteOutcomes(cache) : PhashDelayDone(r, ok)
    \/ \E r \in RunIds, computed \in BOOLEAN : EmbedSettles(r, computed)
    \/ \E r \in RunIds, ok \in WriteOutcomes(cache) : ClipDelayDone(r, ok)
    \/ \E r \in RunIds, ok \in WriteOutcomes(cache) : PhashReturns(r, ok)
    \/ \E r \in RunIds : ClipReturns(r)
    \/ \E ok \in WriteOutcomes(cache) : NoMicrotask /\ SaveTimerFires(ok)

SpecApp == Init /\ [][NextApp]_vars

\* The event loop runs every continuation that is ready, as in FairSpec.
FairSpecApp ==
    /\ SpecApp
    /\ WF_vars(\E r \in RunIds, id \in 1 .. NoPathId, computed \in BOOLEAN :
                  HashSettles(r, id, computed))
    /\ WF_vars(\E r \in RunIds, ok \in WriteOutcomes(cache) : PhashDelayDone(r, ok))
    /\ WF_vars(\E r \in RunIds, computed \in BOOLEAN : EmbedSettles(r, computed))
    /\ WF_vars(\E r \in RunIds, ok \in WriteOutcomes(cache) : ClipDelayDone(r, ok))
    /\ WF_vars(\E r \in RunIds, ok \in WriteOutcomes(cache) : PhashReturns(r, ok))
    /\ WF_vars(\E r \in RunIds : ClipReturns(r))

\* The plugin in the host with a caller of Cache.clear, which is a method
\* of a global object as Indexer.stop is: the call may come at any await of
\* a phase.
NextClear ==
    \/ NextApp
    \/ \E ok \in WriteOutcomes(cache) : CacheClear(ok)

SpecClear == Init /\ [][NextClear]_vars

\* The plugin in the host, started on any cache an earlier session may have
\* left for this library: also one with an incomplete record (no pHash,
\* no colorHistogram) or with nothing but records of items that have no
\* file or have left the library.
InitStale ==
    /\ \E its \in InitItems
                   \cup {Assign(Assign(EmptyItems, 1, Rec(0, 0)), OrphanId, Rec(1, 0)),
                         Assign(Assign(EmptyItems, NoPathId, Rec(1, 0)),
                                OrphanId, Rec(1, 0))} :
         cache = [data |-> Doc(CACHE_VERSION, "libA", its),
                  saveTimer |-> NoTimer, dirty |-> FALSE,
                  file |-> JSONstringify(Doc(CACHE_VERSION, "libA", its)),
                  timers |-> {}, writes |-> 0, threw |-> FALSE, fails |-> 0]
    /\ allItems \in Libraries
    /\ indexer = IndexerInitial
    /\ app = AppInitial
    /\ runs = [r \in RunIds |-> IdleRun]
    /\ search = SearchIdle
    /\ ui = UIInitial
    /\ EmbedderIdle
    /\ SimIdle
    /\ last = NoOp

SpecStale == InitStale /\ [][NextApp]_vars

\* The plugin with the user at the panel: the library has two images, or
\* an image, an image without a file and a text file.
\* Writes to the disk succeed.
InitUser ==
    /\ \E its \in {EmptyItems, Assign(EmptyItems, 1, Rec(1, 1))} :
         cache = [data |-> Doc(CACHE_VERSION, "libA", its),
                  saveTimer |-> NoTimer, dirty |-> FALSE,
                  file |-> JSONstringify(Doc(CACHE_VERSION, "libA", its)),
                  timers |-> {}, writes |-> 0, threw |-> FALSE, fails |-> MaxFails]
    /\ allItems \in {[n \in ItemIds |-> n], <<1, NoPathId, TextId>>}
    /\ indexer = IndexerInitial
    /\ app = AppInitial
    /\ runs = [r \in RunIds |-> IdleRun]
    /\ search = SearchIdle
    /\ ui = UIInitial
    /\ EmbedderIdle
    /\ SimIdle
    /\ last = NoOp

NextUser ==
    \/ \E ok \in WriteOutcomes(cache) : AppInit(ok)
    \/ \E loaded \in BOOLEAN, ok \in WriteOutcomes(cache) : InitClipSettle(loaded, ok)
    \/ \E r \in RunIds, id \in 1 .. NoPathId, computed \in BOOLEAN :
         HashSettles(r, id, computed)
    \/ \E r \in RunIds, ok \in WriteOutcomes(cache) : PhashDelayDone(r, ok)
    \/ \E r \in RunIds, computed \in BOOLEAN : EmbedSettles(r, computed)
    \/ \E r \in RunIds, ok \in WriteOutcomes(cache) : ClipDelayDone(r, ok)
    \/ \E r \in RunIds, ok \in WriteOutcomes(cache) : PhashReturns(r, ok)
    \/ \E r \in RunIds : ClipReturns(r)
    \/ \E ok \in WriteOutcomes(cache) : NoMicrotask /\ SaveTimerFires(ok)
    \/ \E sel \in Selections : PollSelection(sel)
    \/ ResultCountChange
    \/ DropFile
    \/ \E computed \in BOOLEAN : SearchHashSettles(computed)
    \/ \E computed \in BOOLEAN : SearchEmbedSettles(computed)

SpecUser == InitUser /\ [][NextUser]_vars

\* What findSimilar can return, without the scores: the rankings of up to
\* MaxItems cached items.
Rankings ==
    UNION {[1 .. n -> {[id |-> i, score |-> 0] : i \in 1 .. OrphanId}] :
              n \in 0 .. MaxItems}

\* The step in which the await of a search settles, whatever findSimilar
\* returns.  Every step of SearchHashSettles and of SearchEmbedSettles is
\* one, no other step of NextUser is (last names the step), and it is
\* enabled exactly when one of them is: weak fairness of it is weak fairness
\* of the two together, stated without the ranking.
SearchSettles ==
    /\ NoMicrotask
    /\ search.pc \in {"hashes", "embedding"}
    /\ last' \in {[NoOp EXCEPT !.op = "searchHashSettles"],
                  [NoOp EXCEPT !.op = "searchEmbedSettles"]}
    /\ last'.op = IF search.pc = "hashes" THEN "searchHashSettles"
                  ELSE "searchEmbedSettles"
    /\ UNCHANGED <<embVars, allItems, sim>>
    /\ \E computed \in BOOLEAN, results \in Rankings :
         \E w \in {World(IdleRun, TRUE)} :
             CommitApp(IF search.pc = "hashes" /\ ~computed THEN SearchFailed(w)
                       ELSE IF search.pc = "hashes" /\ w.a.clipReady
                       THEN [w EXCEPT !.s.pc = "embedding"]
                       ELSE SearchEnd(w, computed /\ search.pc = "embedding",
                                      results))

\* The event loop runs every continuation that is ready; the user and the
\* poll are not obliged to do anything.
FairSpecUser ==
    /\ SpecUser
    /\ WF_vars(\E r \in RunIds, id \in 1 .. NoPathId, computed \in BOOLEAN :
                  HashSettles(r, id, computed))
    /\ WF_vars(\E r \in RunIds, ok \in WriteOutcomes(cache) : PhashDelayDone(r, ok))
    /\ WF_vars(\E r \in RunIds, computed \in BOOLEAN : EmbedSettles(r, computed))
    /\ WF_vars(\E r \in RunIds, ok \in WriteOutcomes(cache) : ClipDelayDone(r, ok))
    /\ WF_vars(\E r \in RunIds, ok \in WriteOutcomes(cache) : PhashReturns(r, ok))
    /\ WF_vars(\E r \in RunIds : ClipReturns(r))
    /\ WF_vars(SearchSettles)

\* The plugin with the user at the panel, on a first session (no record
\* cached) with a library of an image, an image without a file and a text
\* file.  Writes to the disk succeed.
InitSearch ==
    /\ cache = [data |-> Doc(CACHE_VERSION, "libA", EmptyItems),
                saveTimer |-> NoTimer, dirty |-> FALSE,
                file |-> JSONstringify(Doc(CACHE_VERSION, "libA", EmptyItems)),
                timers |-> {}, writes |-> 0, threw |-> FALSE, fails |-> MaxFails]
    /\ allItems = <<1, NoPathId, TextId>>
    /\ indexer = IndexerInitial
    /\ app = AppInitial
    /\ runs = [r \in RunIds |-> IdleRun]
    /\ search = SearchIdle
    /\ ui = UIInitial
    /\ EmbedderIdle
    /\ SimIdle
    /\ last = NoOp

\* The event loop runs every continuation that is ready, as in
\* FairSpecUser.
FairSpecSearch ==
    /\ InitSearch /\ [][NextUser]_vars
    /\ WF_vars(\E r \in RunIds, id \in 1 .. NoPathId, computed \in BOOLEAN :
                  HashSettles(r, id, computed))
    /\ WF_vars(\E r \in RunIds, ok \in WriteOutcomes(cache) : PhashDelayDone(r, ok))
    /\ WF_vars(\E r \in RunIds, computed \in BOOLEAN : EmbedSettles(r, computed))
    /\ WF_vars(\E r \in RunIds, ok \in WriteOutcomes(cache) : ClipDelayDone(r, ok))
    /\ WF_vars(\E r \in RunIds, ok \in WriteOutcomes(cache) : PhashReturns(r, ok))
    /\ WF_vars(\E r \in RunIds : ClipReturns(r))
    /\ WF_vars(SearchSettles)

\* ------------------------------------------------------ claims: the indexer
ActiveRuns == {r \in RunIds : runs[r].pc # "idle"}

\* The steps in which an entry point is called: Indexer.indexLibrary,
\* App._startIndexing (from App.init), App._startClipIndexing (from
\* _initClip once the model is loaded).
EntryOps == {"indexLibrary", "appInit", "initClipSettle"}

\* C1: a call of an indexing entry point made while Indexer.isRunning() is
\* true changes neither _isRunning, _shouldStop, _phase nor starts any
\* fingerprint or embedding work, so at most one run is ever active.
C1_StartWhileRunningIsNoOp ==
    [][(indexer.isRunning /\ last'.op \in EntryOps) =>
          (indexer' = indexer /\ runs' = runs)]_vars

C3_EmbeddingKept ==
    [][\A id \in CachedIds(cache) \cap CachedIds(cache') :
          getAllItems(cache)[id].embedding # 0 =>
              getAllItems(cache')[id].embedding # 0]_vars

\* C4: when an activation of indexLibrary or _startIndexing has returned,
\* every cached record belongs to an item of the library list.
C4_NoOrphanAfterRun ==
    last.ended => CachedIds(cache) \subseteq Range(allItems)

\* ---------------------------------------------------- claims: the embedder
\* C5: a call of Embedder.init made while a load was in flight returns the
\* boolean the call that ran that load returned.
C5_WaiterSeesLoadResult ==
    \A k \in Callers :
        (calls[k].pc = "returned" /\ calls[k].target # 0) =>
            /\ calls[calls[k].target].pc = "returned"
            /\ calls[k].res = calls[calls[k].target].res

LoadsInFlight(cs) == Cardinality({k \in Callers : cs[k].pc = "loading"})

\* C6: at most one load is in flight in every state (a call starts one only
\* when _loading is clear, and sets it in the same step), and a call made
\* when the embedder is ready returns true at once and starts no load.
C6_OneLoad ==
    [][/\ LoadsInFlight(calls') <= 1
       /\ (LoadsInFlight(calls') = 1) = embedder'.loading
       /\ (last'.op = "embInit" /\ embedder.ready) =>
             /\ calls'[last'.id].pc = "returned"
             /\ calls'[last'.id].res
             /\ embedder' = embedder
             /\ LoadsInFlight(calls') = 0]_vars

\* A call found the embedder ready and returned true, after an earlier call
\* had joined a load in flight.
C6_Witness ==
    /\ last.op = "embInit"
    /\ calls[last.id].pc = "returned" /\ calls[last.id].res
    /\ embedder.ready /\ ~embedder.loading
    /\ \E k \in Callers : calls[k].target # 0

\* ------------------------------------------------------- claims: the cache
IsWrite(op) == op \in {"timer", "flush", "clear"}

\* C7: while a save timer is pending, setHash calls schedule no second
\* timeout (at most one is scheduled in every state), and when the timeout
\* fires and the write succeeds, one writeFileSync call writes the whole
\* in-memory document, the records of those calls included.
C7_OneTimerOneWrite ==
    [][/\ Cardinality(cache'.timers) <= 1
       /\ (last'.op = "setHash" /\ cache.timers # {}) => cache'.timers = cache.timers
       /\ (last'.op = "timer" /\ last'.ok) =>
             /\ cache'.writes = 1
             /\ cache'.data = cache.data
             /\ cache'.file = JSONstringify(cache.data)
             /\ cache'.timers = {}]_vars

\* Two or more setHash calls were made while the timeout was pending, the
\* timeout fired and the file holds their records.
C7_Witness ==
    /\ last.op = "timer" /\ last.ok /\ last.puts = 2
    /\ cache.writes = 1
    /\ Cardinality(DOMAIN JSONparse(cache.file).items) = 2

\* C8: flush() leaves no timeout scheduled; with the document dirty it
\* writes the whole document (and clears dirty when the write succeeds);
\* with the document clean it writes nothing and leaves items, dirty and
\* the file as they were.
C8_Flush ==
    [][last'.op = "flush" =>
         /\ cache'.timers = {} /\ cache'.saveTimer = NoTimer
         /\ cache'.data = cache.data
         /\ (cache.dirty /\ last'.ok) =>
               /\ cache'.writes = 1
               /\ cache'.file = JSONstringify(cache.data)
               /\ ~cache'.dirty
         /\ (cache.dirty /\ ~last'.ok) =>
               /\ cache'.fails = cache.fails + 1
               /\ cache'.dirty
         /\ ~cache.dirty =>
               /\ cache'.writes = 0 /\ cache'.fails = cache.fails
               /\ cache'.file = cache.file
               /\ ~cache'.dirty]_vars

\* flush() found a timeout pending and the document dirty, and wrote it.
C8_Witness ==
    /\ last.op = "flush" /\ last.ok
    /\ cache.writes = 1 /\ cache.timers = {} /\ ~cache.dirty
    /\ cache.data # Null /\ cache.data.items # EmptyItems

\* C9 as stated: after a failed write the document is eventually persisted
\* (no longer dirty) once writes succeed again.
C9_Original == cache.fails > 0 ~> ~cache.dirty

\* C9 amended: a failed write throws nothing to the caller, changes no
\* in-memory item (clear() has emptied them before it writes) and leaves the
\* document dirty; it schedules no flush; the next flush that runs (a timeout
\* set by a later setHash or removeOrphans, or flush()) writes the document
\* again, and persists it when that write succeeds.
C9_FailedWriteKeepsDirty ==
    [][/\ ~cache'.threw
       /\ (IsWrite(last'.op) /\ ~last'.ok /\ cache'.fails > cache.fails) =>
             /\ cache'.data.items =
                   IF last'.op = "clear" THEN EmptyItems ELSE cache.data.items
             /\ cache'.dirty
             /\ cache'.file = cache.file
             /\ cache'.timers = {}
       /\ (last'.op \in {"timer", "flush"} /\ last'.ok /\ cache.dirty) =>
             /\ cache'.file = JSONstringify(cache'.data)
             /\ ~cache'.dirty]_vars

\* A write failed earlier, the document stayed dirty, and a later flush
\* wrote it.
C9_Witness ==
    /\ cache.fails > 0
    /\ last.op \in {"timer", "flush"} /\ last.ok
    /\ cache.writes = 1 /\ ~cache.dirty
    /\ cache.data.items # EmptyItems

\* C10: on an initialised cache, after setHash(id, r), getHash(id) is r and
\* getHash of every other id is what it was.
C10_PutGet ==
    [][(last'.op = "setHash" /\ cache.data # Null) =>
         /\ getHash(cache', last'.id) = last'.rec
         /\ \A j \in Ids \ {last'.id} : getHash(cache', j) = getHash(cache, j)]_vars

\* setHash replaced a record that held an embedding by one that holds none,
\* with another id cached.
C10_Witness ==
    /\ last.op = "setHash" /\ last.rec = Rec(1, 0)
    /\ cache.data # Null
    /\ \E j \in Ids \ {last.id} : getHash(cache, j) = Rec(1, 1)
    /\ getHash(cache, last.id) = Rec(1, 0)

\* The document Cache._load finds in the file and keeps: the file exists
\* and holds the current schema version and the library path asked for.
FileMatches(c, lp) ==
    /\ c.file # Null
    /\ JSONparse(c.file).version = CACHE_VERSION
    /\ JSONparse(c.file).libraryPath = lp

\* C11: Cache.init with a library path or a schema version other than the
\* persisted document's leaves an empty in-memory document bound to the new
\* library path and the current version: getHash is null for every id and
\* getCachedCount is 0.
C11_MismatchInvalidates ==
    [][(last'.op = "init" /\ cache.file # Null /\ ~FileMatches(cache, last'.lp)) =>
         /\ \A id \in Ids : getHash(cache', id) = Null
         /\ getCachedCount(cache') = 0
         /\ cache'.data.libraryPath = last'.lp
         /\ cache'.data.version = CACHE_VERSION]_vars

\* A document with items written in this session for one library, and the
\* cache then initialised for another library.
C11_Witness ==
    /\ last.op = "init"
    /\ cache.file # Null
    /\ JSONparse(cache.file).version = CACHE_VERSION
    /\ JSONparse(cache.file).libraryPath # last.lp
    /\ DOMAIN JSONparse(cache.file).items = Ids
    /\ getCachedCount(cache) = 0

\* C12: a flush whose write succeeds stores every record of the in-memory
\* document, and Cache.init for the same library and schema version brings
\* back exactly the stored ids, each with the record that was stored.
C12_FlushThenInit ==
    [][/\ (last'.op = "flush" /\ last'.ok /\ cache.dirty /\ cache.data # Null) =>
             /\ FileMatches(cache', cache.data.libraryPath)
             /\ DOMAIN JSONparse(cache'.file).items = CachedIds(cache)
             /\ \A id \in CachedIds(cache) :
                   JSONparse(cache'.file).items[id] = getHash(cache, id)
       /\ (last'.op = "init" /\ FileMatches(cache, last'.lp)) =>
             /\ CachedIds(cache') = DOMAIN JSONparse(cache.file).items
             /\ \A id \in CachedIds(cache') :
                   getHash(cache', id) = JSONparse(cache.file).items[id]]_vars

\* The cache was initialised again for the library whose document a flush
\* of this session wrote: two records, one with an embedding.
C12_Witness ==
    /\ last.op = "init"
    /\ FileMatches(cache, last.lp)
    /\ CachedIds(cache) = Ids
    /\ \E id \in Ids : getHash(cache, id) = Rec(1, 1)
    /\ ~cache.dirty

\* C13: removeOrphans(validIds) removes the records whose id is not in
\* validIds and no other, changes no record it keeps, and schedules a save
\* (dirty set, a timeout pending) exactly when it removed a record; it
\* writes nothing itself.
C13_RemoveOrphans ==
    [][(last'.op = "removeOrphans" /\ cache.data # Null) =>
         LET removed == CachedIds(cache) \ last'.valid
         IN  /\ CachedIds(cache') = CachedIds(cache) \cap last'.valid
             /\ \A id \in CachedIds(cache') : getHash(cache', id) = getHash(cache, id)
             /\ cache'.file = cache.file /\ cache'.writes = 0
             /\ removed # {} =>
                   /\ cache'.dirty
                   /\ cache'.saveTimer # NoTimer
                   /\ cache'.saveTimer \in cache'.timers
             /\ removed = {} =>
                   /\ cache'.dirty = cache.dirty
                   /\ cache'.saveTimer = cache.saveTimer
                   /\ cache'.timers = cache.timers]_vars

\* removeOrphans removed one record and kept another, on a clean document
\* with no timeout pending.
C13_Witness ==
    /\ last.op = "removeOrphans"
    /\ Cardinality(last.valid) = 1
    /\ CachedIds(cache) = last.valid
    /\ cache.dirty /\ cache.timers # {} /\ cache.writes = 0
    /\ cache.file # Null
    /\ DOMAIN JSONparse(cache.file).items = Ids

\* ---------------------------------------------------- claims: Similarity
FindDone == sim.kind = "findSimilar" /\ sim.done
ScoreDone == sim.kind = "combinedScore" /\ sim.done

\* The candidate of the pool a result entry stands for.
CandidateOf(entry) == sim.cacheItems[entry.id].value

\* C14: findSimilar returns no entry whose id is excludeId.
C14_ExcludeId ==
    FindDone => \A i \in 1 .. Len(sim.results) : sim.results[i].id # sim.excludeId

\* excludeId names a candidate of the pool that another candidate, which
\* was returned, equals.
C14_Witness ==
    /\ FindDone
    /\ sim.excludeId \in 1 .. Len(sim.cacheItems)
    /\ \E i \in 1 .. Len(sim.results) :
          CandidateOf(sim.results[i]) = sim.cacheItems[sim.excludeId].value

\* C15: the entries findSimilar returns are in order of non-increasing
\* score, and entries of equal score are in the order in which the pool
\* enumerates their ids.
C15_Sorted ==
    FindDone =>
        \A i, j \in 1 .. Len(sim.results) :
            i < j =>
                /\ sim.results[i].score >= sim.results[j].score
                /\ sim.results[i].score = sim.results[j].score
                      => sim.results[i].id < sim.results[j].id

\* Three entries returned: two of equal score ahead of one of lower score
\* that the pool enumerates first.
C15_Witness ==
    /\ FindDone
    /\ Len(sim.results) = 3
    /\ sim.results[1].score = sim.results[2].score
    /\ sim.results[2].score > sim.results[3].score
    /\ sim.results[3].id = 1

\* C16: findSimilar returns at most maxResults entries, each of score at
\* least threshold/100.
C16_Bounded ==
    FindDone =>
        /\ Len(sim.results) <= sim.maxResults
        /\ \A i \in 1 .. Len(sim.results) :
              100 * sim.results[i].score >= sim.threshold * SCALE

\* maxResults is 1, the threshold 98, two candidates reach the threshold
\* and a third does not.
C16_Witness ==
    /\ FindDone
    /\ sim.maxResults = 1 /\ sim.threshold = 98
    /\ Len(sim.results) = 1
    /\ Len(findSimilar(sim.queryData, sim.cacheItems, 98, MaxPool,
                       sim.excludeId, sim.mode)) = 2
    /\ Len(findSimilar(sim.queryData, sim.cacheItems, 0, MaxPool,
                       sim.excludeId, sim.mode)) = 3

LacksEmbedding(a, b) == ~TruthyArray(a.embedding) \/ ~TruthyArray(b.embedding)

\* C17: in hybrid mode combinedScore is the score of the pixel mode,
\* 0.6 pHashScore + 0.4 histogramScore, when the query or the candidate has
\* no embedding, and 0.25 pHashScore + 0.15 histogramScore
\* + 0.60 embeddingScore when both have one.
C17_HybridFallback ==
    (ScoreDone /\ sim.mode = MODE_HYBRID) =>
        IF LacksEmbedding(sim.queryData, sim.candidateData)
        THEN sim.score = sim.pixel
        ELSE 100 * sim.score =
                 25 * pHashScore(sim.queryData.pHash, sim.candidateData.pHash)
                 + 15 * histogramSimilarity(sim.queryData.colorHistogram,
                                            sim.candidateData.colorHistogram)
                 + 60 * clipSimilarity(sim.queryData.embedding,
                                       sim.candidateData.embedding)

\* The query has an embedding, the candidate has none, both have a hash and
\* a histogram: the hybrid score is the pixel score, not zero.
C17_Witness ==
    /\ ScoreDone /\ sim.mode = MODE_HYBRID
    /\ TruthyArray(sim.queryData.embedding)
    /\ ~TruthyArray(sim.candidateData.embedding)
    /\ sim.queryData.pHash # sim.candidateData.pHash
    /\ TruthyString(sim.queryData.pHash) /\ TruthyString(sim.candidateData.pHash)
    /\ sim.score = sim.pixel
    /\ sim.score > 0 /\ sim.score < SCALE

\* C18: in clip mode combinedScore is 0 when the query or the candidate has
\* no embedding and findSimilar returns no candidate without an embedding;
\* in phash mode (also when no mode is given) findSimilar returns no
\* candidate without a pHash.
C18_ModeRequirements ==
    /\ (ScoreDone /\ sim.mode = MODE_CLIP
        /\ LacksEmbedding(sim.queryData, sim.candidateData)) => sim.score = 0
    /\ (FindDone /\ sim.mode = MODE_CLIP) =>
          \A i \in 1 .. Len(sim.results) :
              TruthyArray(CandidateOf(sim.results[i]).embedding)
    /\ (FindDone /\ sim.mode \in {MODE_PHASH, ""}) =>
          \A i \in 1 .. Len(sim.results) :
              TruthyString(CandidateOf(sim.results[i]).pHash)

\* A search in clip mode with threshold 0 over a pool that holds a
\* candidate without an embedding returned the other candidates.
C18_Witness ==
    /\ FindDone /\ sim.mode = MODE_CLIP /\ sim.threshold = 0
    /\ sim.excludeId = NoId /\ sim.maxResults = MaxPool
    /\ Len(sim.cacheItems) = 3
    /\ \E i \in 1 .. 3 :
          /\ sim.cacheItems[i].value # Null
          /\ ~TruthyArray(sim.cacheItems[i].value.embedding)
    /\ Len(sim.results) = 2

\* C19: every score findSimilar returns, and every score combinedScore
\* computes, is between 0 and 1.
C19_ScoreRange ==
    /\ FindDone =>
          \A i \in 1 .. Len(sim.results) :
              sim.results[i].score >= 0 /\ sim.results[i].score <= SCALE
    /\ ScoreDone => (sim.score >= 0 /\ sim.score <= SCALE)

\* A hybrid search returned a candidate of score 1 and one of score 0.
C19_Witness ==
    /\ FindDone /\ sim.mode = MODE_HYBRID
    /\ Len(sim.results) >= 2
    /\ sim.results[1].score = SCALE
    /\ sim.results[Len(sim.results)].score = 0

\* Bit k of the hexadecimal digit ch.
BitOf(ch, k) == (parseInt16(ch) \div (2 ^ k)) % 2

\* The bits in which two hashes of equal length differ.
DifferingBits(a, b) ==
    {<<i, k>> \in (1 .. Len(a)) \X (0 .. 3) : BitOf(a[i], k) # BitOf(b[i], k)}

\* C20: for hashes a and b of equal length (not empty),
\* hammingDistance(a, a) is 0, hammingDistance(a, b) is
\* hammingDistance(b, a), and it is the number of bits in which a and b
\* differ.
C20_Hamming ==
    (/\ sim.kind = "hammingDistance" /\ sim.done
     /\ TruthyString(sim.a) /\ TruthyString(sim.b)
     /\ Len(sim.a.v) = Len(sim.b.v)) =>
        /\ sim.aa = 0
        /\ sim.ab = sim.ba
        /\ sim.ab = Cardinality(DifferingBits(sim.a.v, sim.b.v))

\* Two hashes of two characters that differ in 7 bits.
C20_Witness ==
    /\ sim.kind = "hammingDistance" /\ sim.done
    /\ Len(sim.a.v) = 2 /\ Len(sim.b.v) = 2
    /\ sim.ab = 7 /\ sim.ba = 7 /\ sim.aa = 0

\* The two hashes can be compared: both are there, not empty, and of the
\* same length.
Comparable(a, b) == TruthyString(a) /\ TruthyString(b) /\ Len(a.v) = Len(b.v)

C22_ClipPhaseOnlyWhenReady ==
    /\ indexer.phase = "clip" => isReady(embedder)
    /\ \A r \in RunIds :
          runs[r].pc \in {"clipItem", "clipDelay"} => isReady(embedder)

\* An activation that _startClipIndexing started is in the embedding
\* phase: it computes no fingerprint.
StartClipComputesNoFingerprint ==
    \A r \in RunIds :
        runs[r].kind = "startClip" =>
            runs[r].pc \in {"clipItem", "clipDelay", "clipReturned"}

\* C23: in the plugin, for a library that is not empty, once the model is
\* loaded (App.clipReady) _startClipIndexing eventually passes its guard,
\* it does so once, and the activation it starts computes no fingerprint.
C23_ClipStartsOnce ==
    /\ [](app.clipStarts <= 1)
    /\ []StartClipComputesNoFingerprint
    /\ (app.clipReady /\ Len(allItems) > 0) ~> (app.clipStarts = 1)

\* The model was loaded while the fingerprint phase was running, and the
\* embedding phase was started when that phase had ended.
C23_Witness ==
    /\ last.op = "phashReturns"
    /\ app.clipReady /\ app.clipStarts = 1
    /\ \E r \in RunIds : runs[r].kind = "startClip" /\ runs[r].pc = "clipItem"

\* What the cache holds: its records, the document on the disk, the dirty
\* flag and the save timer.
CacheState(c) ==
    [data |-> c.data, file |-> c.file, dirty |-> c.dirty,
     saveTimer |-> c.saveTimer, timers |-> c.timers]

\* ------------------------------------------------------- claims: searching
\* The steps that are a search or a part of one.
SearchOps ==
    {"pollSelection", "dropFile", "resultCountChange", "searchHashSettles",
     "searchEmbedSettles"}

\* The world a search function is called in leaves it with the same cache:
\* the functions up to their first await and the catch.  (The end of a
\* search and _refilterResults, which call findSimilar, are looked at in
\* the steps that run them.)
SearchFunctionsKeepCache ==
    LET w == World(IdleRun, TRUE)
    IN  /\ \A id \in Range(allItems) : performSearch(w, id).c = w.c
        /\ _searchByExternalFile(w).c = w.c
        /\ SearchSelected(w, allItems).c = w.c
        /\ search.pc # "idle" => SearchFailed(w).c = w.c

\* C24: performSearch and _searchByExternalFile return with the cache they
\* were called with, and a step of a search (a selection, a dropped file,
\* a change of the result count with its _refilterResults, the end of a
\* search with its findSimilar) adds, removes or replaces no cache record,
\* leaves the document on the disk and the dirty flag as they are and arms
\* no save timer.
C24_SearchLeavesCache ==
    [][last'.op \in SearchOps =>
          /\ SearchFunctionsKeepCache
          /\ CacheState(cache') = CacheState(cache)]_vars

\* A search has ended and rendered results found in a cache that has records.
C24_Witness ==
    /\ last.op \in {"searchHashSettles", "searchEmbedSettles"}
    /\ ui.grid # << >>
    /\ app.lastResults # Null
    /\ CachedIds(cache) # {}

\* A search for item x is in flight.
SearchInFlight(x) == search.pc # "idle" /\ search.kind = "item" /\ search.id = x

\* C25: with auto-search enabled, once polling has made an item that has a
\* file the selected item, a search for it is eventually in flight or
\* performed (lastSearchedId), unless the selection has changed again.
C25_SelectionIsSearched ==
    \A x \in 1 .. MaxItems :
        (app.autoSearchEnabled /\ app.lastSelectedId = x)
            ~> (\/ SearchInFlight(x)
                \/ app.lastSearchedId = x
                \/ app.lastSelectedId # x)

\* ------------------------------- claims: the phases of the indexer, again
\* The library has no image-type item.
ZeroImages == Len(ImageItems(allItems)) = 0

\* The awaits a phase passes when it has nothing to compute: those of
\* promises that have resolved.
NothingAwaited ==
    \A r \in RunIds : runs[r].pc \in {"idle", "phashReturned", "clipReturned"}

\* C26: in a library without image-type items no step of the indexing
\* waits for a computation or a timeout (a phase returns in the step that
\* starts it), no step calls the progress callback or shows the progress
\* bar, and no step changes the cache records, the document on the disk,
\* the dirty flag or the save timer.
C26_ZeroImagesSilent ==
    [][ZeroImages =>
          /\ NothingAwaited'
          /\ last'.rep = NoReport
          /\ ui'.progress = NoReport
          /\ CacheState(cache') = CacheState(cache)]_vars

\* indexLibrary has run both phases, the model loaded, on a library whose
\* only item is not an image.
C26_Witness ==
    /\ ZeroImages
    /\ Len(allItems) > 0
    /\ isReady(embedder)
    /\ last.op = "clipReturns"
    /\ last.ended
    /\ ~indexer.isRunning

\* C26 as stated: the step in which the indexing of a library without
\* image-type items completes reports processed = total = 0.
C26_ReportsZero ==
    [][(ZeroImages /\ last'.ended) =>
          (last'.rep.processed = 0 /\ last'.rep.total = 0)]_vars

\* ------------------------------------------------ claims: the cache, again
\* C27: clear() on an initialised cache leaves the items mapping empty and
\* no timeout scheduled, and writes the document in the same call: when the
\* write succeeds the file holds the empty document and dirty is false,
\* when it fails the file is as before and dirty is true.
C27_Clear ==
    [][(last'.op = "clear" /\ cache.data # Null) =>
         /\ cache'.data = [cache.data EXCEPT !.items = EmptyItems]
         /\ cache'.timers = {} /\ cache'.saveTimer = NoTimer
         /\ last'.ok =>
               /\ cache'.writes = 1
               /\ cache'.file = JSONstringify(cache'.data)
               /\ ~cache'.dirty
         /\ ~last'.ok =>
               /\ cache'.fails = cache.fails + 1
               /\ cache'.file = cache.file
               /\ cache'.dirty]_vars

\* clear() has emptied an initialised cache and its write succeeded.
C27_Witness ==
    /\ last.op = "clear" /\ last.ok
    /\ cache.data # Null /\ cache.data.items = EmptyItems
    /\ cache.writes = 1 /\ cache.timers = {} /\ ~cache.dirty
    /\ cache.file = JSONstringify(cache.data)

\* ------------------------------------------------- claims: failing items
\* The items of the chunk or item at index i of activation r.
ChunkAt(r) ==
    {runs[r].todo[n] :
        n \in runs[r].i .. Min(runs[r].i + CHUNK_SIZE - 1, Len(runs[r].todo))}

\* The ids whose computation has thrown in the phase activation r is in.
Failed(r) == runs[r].failed

\* C28: when the computation of an item throws, the step changes no cache
\* record (nor the file, the dirty flag, the timer); the other items of the
\* chunk stay in flight, and one that settles computed is written; the
\* activation stays in its phase at the same chunk, on its way to the delay
\* and the next iteration, with the indexer as it was; and no item whose
\* computation has failed in a phase of an activation is in flight in
\* that phase again.
C28_FailureIsLocal ==
    [][/\ \A r \in RunIds : Failed(r) \cap runs[r].inflight = {}
       /\ (last'.op \in {"hashSettles", "embedSettles"} /\ ~last'.computed) =>
             /\ CacheState(cache') = CacheState(cache)
             /\ indexer' = indexer
             /\ \E r \in RunIds :
                   /\ last'.id \in runs[r].inflight
                   /\ runs'[r].inflight = runs[r].inflight \ {last'.id}
                   /\ Failed(r)' = Failed(r) \cup {last'.id}
                   /\ runs'[r].todo = runs[r].todo /\ runs'[r].i = runs[r].i
                   /\ runs'[r].pc =
                         IF runs[r].pc = "clipItem" THEN "clipDelay"
                         ELSE IF runs'[r].inflight = {} THEN "phashDelay"
                         ELSE "phashChunk"
                   /\ \A q \in RunIds \ {r} : runs'[q] = runs[q]
       /\ (last'.op = "hashSettles" /\ last'.computed) =>
             getHash(cache', last'.id) = Rec(1, 0)
       /\ (last'.op = "embedSettles" /\ last'.computed) =>
             /\ getHash(cache', last'.id) # Null
             /\ getHash(cache', last'.id).embedding = 1]_vars

\* In a chunk of two items one has failed and the other has then been
\* computed and written; the delay before the next chunk has started.
C28_Witness ==
    /\ last.op = "hashSettles" /\ last.computed
    /\ \E r \in RunIds :
          /\ runs[r].pc = "phashDelay"
          /\ Failed(r) # {}
          /\ Failed(r) \cup {last.id} = ChunkAt(r)
          /\ last.id \notin Failed(r)
          /\ runs[r].i + CHUNK_SIZE <= Len(runs[r].todo)
    /\ getHash(cache, last.id) = Rec(1, 0)

\* ------------------------------------------- claims: the embedding phase
\* C29: the step in which the embedding phase writes the record of an item
\* leaves that record fingerprint-complete, with the pHash, colorHistogram
\* and ext the cache held for the item before the step.
C29_EmbeddingKeepsFingerprint ==
    [][(last'.op = "embedSettles" /\ last'.computed) =>
          /\ hasValidHash(cache', last'.id)
          /\ getHash(cache, last'.id) # Null
          /\ getHash(cache', last'.id).pHash = getHash(cache, last'.id).pHash
          /\ getHash(cache', last'.id).colorHistogram
                = getHash(cache, last'.id).colorHistogram
          /\ getHash(cache', last'.id).ext = getHash(cache, last'.id).ext]_vars

\* Activation r gives an item to Embedder.computeEmbedding in this step.
EmbeddingStarts(r) ==
    /\ runs'[r].pc = "clipItem"
    /\ runs[r].pc # "clipItem"

\* C30: when the embedding phase gives an item to the embedding
\* computation, the record the cache holds for it is fingerprint-complete
\* and has no embedding.
C30_EmbedsOnlyFingerprinted ==
    [][\A r \in RunIds :
          EmbeddingStarts(r) =>
              \A id \in runs'[r].inflight :
                  /\ hasValidHash(cache', id)
                  /\ getHash(cache', id).embedding = 0]_vars

\* --------------------------------------------- claims: the end of a phase
\* _indexPhash or _indexClip of activation r returns in this step.
PhaseReturns(r) ==
    /\ runs'[r].pc \in {"phashReturned", "clipReturned"}
    /\ runs'[r].pc # runs[r].pc

\* The records of the document are those of the file, and nothing waits
\* to be written.
OnDisk(c) ==
    /\ ~c.dirty
    /\ c.saveTimer = NoTimer /\ c.timers = {}
    /\ c.file = JSONstringify(c.data)

\* C31: when a fingerprint phase or an embedding phase returns, completed
\* or stopped, and no write to the disk has failed, the document is not
\* dirty, no save timer is pending and the file holds the document.
C31_PhaseEndOnDisk ==
    [][\A r \in RunIds :
          (PhaseReturns(r) /\ cache'.fails = 0) => OnDisk(cache')]_vars

\* -------------------------------------------- claims: a run of _startIndexing
\* Every image-type item of the library that has a file or a thumbnail is
\* fingerprint-complete in cache c.
AllFingerprinted(c) ==
    \A id \in Range(allItems) :
        (isImageType(ItemExt(id)) /\ getHashPath(id) # Null) => hasValidHash(c, id)

\* C32: when App._startIndexing completes in the step that calls it, and
\* when its fingerprint phase returns with no stop requested and no
\* computation failed (the activation then completes with the cache it
\* has), every image-type item that has a file or thumbnail path is
\* fingerprint-complete in the cache.
C32_StartIndexingFingerprintsAll ==
    [][/\ (last'.op = "appInit" /\ last'.ended) => AllFingerprinted(cache')
       /\ \A r \in RunIds :
             (/\ runs[r].kind = "startIndexing"
              /\ runs[r].pc = "phashDelay" /\ runs'[r].pc = "phashReturned"
              /\ ~runs'[r].stopReq /\ runs[r].failed = {})
                 => AllFingerprinted(cache')]_vars

\* ------------------------------------------------ claims: progress reports
\* The phase an activation suspended at pc is in the loop of.
PhaseOf(pc) ==
    IF pc \in {"phashChunk", "phashDelay"} THEN "phash"
    ELSE IF pc \in {"clipItem", "clipDelay"} THEN "clip"
    ELSE "none"

\* C33: the step in which the last computation of a chunk (fingerprint
\* phase) or the computation of an item (embedding phase) settles calls
\* the progress callback; within a phase the processed value reported
\* never decreases and never exceeds the total, which is the number of
\* image-type items; and when the loop of a phase has ended with no stop
\* requested, the last processed value reported is the total.
C33_Progress ==
    [][\A r \in RunIds :
          /\ (runs[r].pc \in {"phashChunk", "clipItem"}
                 /\ runs'[r].pc \in {"phashDelay", "clipDelay"}) =>
                last'.rep = Report(runs'[r].processed, runs'[r].total,
                                   PhaseOf(runs[r].pc))
          /\ PhaseOf(runs'[r].pc) # "none" =>
                /\ runs'[r].processed <= runs'[r].total
                /\ runs'[r].total = Len(ImageItems(allItems))
          /\ (PhaseOf(runs'[r].pc) # "none"
                 /\ PhaseOf(runs'[r].pc) = PhaseOf(runs[r].pc)) =>
                runs'[r].processed >= runs[r].processed
          /\ (runs[r].pc \in {"phashDelay", "clipDelay"}
                 /\ runs'[r].pc \in {"phashReturned", "clipReturned"}
                 /\ ~runs'[r].stopReq /\ ~indexer.shouldStop) =>
                runs[r].processed = runs[r].total]_vars

\* ------------------------------------------- claims: bounded parallelism
\* The fingerprint computations and the embedding computations that have
\* been started and have not settled, over all activations.
HashesInFlight ==
    Sum([r \in RunIds |->
            IF runs[r].pc = "phashChunk" THEN Cardinality(runs[r].inflight) ELSE 0])

EmbeddingsInFlight == Cardinality({r \in RunIds : runs[r].pc = "clipItem"})

\* Activation r starts a chunk or an item in this step.
ChunkStarts(r) ==
    /\ runs'[r].pc \in {"phashChunk", "clipItem"}
    /\ \/ runs'[r].pc # runs[r].pc
       \/ runs'[r].i # runs[r].i
       \/ runs'[r].kind # runs[r].kind

\* C34: at most CHUNK_SIZE fingerprint computations and at most one
\* embedding computation are in flight, and an activation starts a chunk
\* or an item only when none of its computations is in flight.
C34_BoundedParallelism ==
    [][/\ HashesInFlight' <= CHUNK_SIZE
       /\ EmbeddingsInFlight' <= EMBED_CHUNK_SIZE
       /\ \A r \in RunIds : ChunkStarts(r) => runs[r].inflight = {}]_vars

\* -------------------------------------------------- claims: stop and phases
\* The awaits of the embedding phase.
ClipPcs == {"clipItem", "clipDelay", "clipReturned"}

\* The fingerprint phase of activation r has returned and stop() was
\* called while it ran: since the phase returned, no step has been taken
\* but the return itself.
StoppedInPhash(r) ==
    /\ runs[r].pc = "phashReturned"
    /\ runs[r].stopReq
    /\ last.op # "stop"

\* C35: when stop() was requested during the fingerprint phase of an
\* activation of indexLibrary or of _startIndexing, the step that follows
\* the phase enters no embedding phase: _phase does not become 'clip',
\* _startClipIndexing does not pass its guard and no activation waits at
\* an await of the embedding phase.
C35_StopSkipsEmbedding ==
    [][\A r \in RunIds :
          (StoppedInPhash(r) /\ runs'[r] # runs[r]) =>
              /\ indexer'.phase # "clip"
              /\ app'.clipStarts = app.clipStarts
              /\ runs'[r].pc \notin ClipPcs]_vars

C37_OneSearch ==
    /\ [](search.n <= 1 /\ (app.isSearching <=> search.pc # "idle"))
    /\ (app.isSearching ~> ~app.isSearching)

\* After a search that rendered results, a later search has failed in
\* its fingerprint computation and has released isSearching.
C37_Witness ==
    /\ last.op = "searchHashSettles"
    /\ ~app.isSearching /\ search = SearchIdle
    /\ ui.for = NoId /\ ui.grid = << >>
    /\ app.lastResults # Null

\* -------------------------------------------- claims: the debounced write
\* C38: while no write has failed, a dirty document has its save timer
\* pending; and, unless a write fails, a dirty document is eventually
\* written: it is clean and the file holds it, without any call of flush()
\* being required.
C38_DirtyHasTimer ==
    /\ [](cache.fails = 0 =>
            (cache.dirty =>
                (cache.saveTimer # NoTimer /\ cache.saveTimer \in cache.timers)))
    /\ ((cache.dirty /\ cache.fails = 0)
           ~> (\/ /\ ~cache.dirty /\ cache.data # Null
                  /\ cache.file = JSONstringify(cache.data)
               \/ cache.fails > 0))

\* An orphan removal marked the document dirty and the timeout it armed
\* has fired and written the document; no write has failed.
C38_Witness ==
    /\ last.op = "timer" /\ last.ok /\ last.puts = 0
    /\ cache.fails = 0 /\ cache.writes = 1
    /\ ~cache.dirty /\ cache.timers = {}
    /\ cache.file = JSONstringify(cache.data)

\* ------------------------------------------- claims: the ranking as a whole
SearchModeOf(mode) == IF mode = "" THEN MODE_PHASH ELSE mode

\* The score of candidate i of the pool against the query of the call.
PoolScore(i) ==
    combinedScore(sim.queryData, sim.cacheItems[i].value, SearchModeOf(sim.mode))

\* The eligible candidates of the call: not excludeId, an entry that is
\* not null and has the field the mode requires, of score at least
\* threshold/100.
EligibleIds ==
    {i \in 1 .. Len(sim.cacheItems) :
        /\ i # sim.excludeId
        /\ sim.cacheItems[i].value # Null
        /\ SearchModeOf(sim.mode) = MODE_CLIP
              => TruthyArray(sim.cacheItems[i].value.embedding)
        /\ SearchModeOf(sim.mode) = MODE_PHASH
              => TruthyString(sim.cacheItems[i].value.pHash)
        /\ 100 * PoolScore(i) >= sim.threshold * SCALE}

ReturnedIds == {sim.results[i].id : i \in 1 .. Len(sim.results)}

\* C39: findSimilar returns min(maxResults, number of eligible candidates)
\* distinct eligible candidates, each with its score, and no eligible
\* candidate left out has a score strictly above that of a returned one.
C39_TopOfEligible ==
    FindDone =>
        /\ ReturnedIds \subseteq EligibleIds
        /\ Cardinality(ReturnedIds) = Len(sim.results)
        /\ Len(sim.results) = Min(sim.maxResults, Cardinality(EligibleIds))
        /\ \A i \in 1 .. Len(sim.results) :
              /\ sim.results[i].score = PoolScore(sim.results[i].id)
              /\ \A e \in EligibleIds \ ReturnedIds :
                    PoolScore(e) <= sim.results[i].score

\* maxResults is 1 and three candidates are eligible; the one returned is
\* the last the pool enumerates, of score strictly above the other two.
C39_Witness ==
    /\ FindDone
    /\ sim.maxResults = 1 /\ sim.excludeId = NoId
    /\ Cardinality(EligibleIds) = 3
    /\ ReturnedIds = {3}
    /\ PoolScore(3) > PoolScore(1) /\ PoolScore(3) > PoolScore(2)

\* ------------------------------------------- claims: phase and running flag
\* C40: Indexer.getPhase() is non-null exactly when Indexer.isRunning() is
\* true, and a non-null phase is 'phash' or 'clip'.
C40_PhaseIffRunning ==
    /\ indexer.phase \in {"null", "phash", "clip"}
    /\ (indexer.phase # "null") <=> indexer.isRunning

====
